---- MODULE Spec2Model ----
(***************************************************************************)
(* Attendance aggregation and insight pipeline of pod-attendify:           *)
(* the backend /ai/query and /analytics routes, the UI-side assistant      *)
(* (AIAssistant.getAttendanceInsights) and the Analytics page.             *)
(*                                                                         *)
(* Strings that the code inspects character by character (queries and      *)
(* keywords) are sequences of one-character strings.  Attendance rates     *)
(* are exact fractions [num, den] (value num/den, den > 0); the code       *)
(* computes them as (present / total) * 100 in double precision.           *)
(* Calendar days are day numbers; getDay() of day d is d % 7.              *)
(***************************************************************************)
EXTENDS Integers, Sequences, FiniteSets, TLC

VARIABLES records, res, attendanceStats, studentAttendance, analyticsIsLoading,
          submission, call,
          storedFiles, uploadRes, bucket, file, proofToast,
          users, tables, req, pendingAudit, auditLogs, responses, served,
          available, isInitialized, initializeSettled, warned, insight,
          sectionTable, studentTable, deletion,
          fileRes, statsCall,
          messages, input, isLoading, sending

\* the attendance store, the insight handlers and the Analytics page
coreVars == <<records, res, attendanceStats, studentAttendance, analyticsIsLoading>>

\* the backend's stored files, the Supabase bucket and the proof-upload modal
uploadVars == <<storedFiles, uploadRes, bucket, file, proofToast>>

\* the users table, the other tables, the request in the middleware chain,
\* the audit events not yet written, the audit log and the responses sent
routeVars == <<users, tables, req, pendingAudit, auditLogs, responses, served>>

\* the collaborators that are up, and the integration service: its flag, how
\* the last initialize settled, the warnings it logged, the last insight
integrationVars == <<available, isInitialized, initializeSettled, warned, insight>>

\* the rows of sections and students, and the DELETE /sections/:id requests
sectionVars == <<sectionTable, studentTable, deletion>>

\* the response of the last request that read or deleted stored files
fileVars == <<fileRes>>

\* the statistics request in progress
statsVars == <<statsCall>>

\* the state of the assistant chat and the handleSend that is waiting
chatVars == <<messages, input, isLoading, sending>>

extVars == <<integrationVars, sectionVars, fileVars, statsVars, chatVars>>

backendVars == <<uploadVars, routeVars, extVars>>

besidesIntegration ==
  <<coreVars, submission, call, uploadVars, routeVars, sectionVars, fileVars, statsVars, chatVars>>

besidesSections ==
  <<coreVars, submission, call, uploadVars, routeVars, integrationVars, fileVars,
                 statsVars, chatVars>>

besidesFiles ==
  <<coreVars, submission, call, routeVars, integrationVars, sectionVars, statsVars, chatVars>>

besidesStats ==
  <<submission, call, uploadVars, routeVars, integrationVars, sectionVars, fileVars,
    chatVars>>

besidesChat ==
  <<submission, call, uploadVars, routeVars, integrationVars, sectionVars, fileVars,
    statsVars>>

\* the state outside the insight handlers and the Analytics page
serviceVars == <<submission, call, backendVars>>

vars == <<records, res, attendanceStats, studentAttendance, analyticsIsLoading,
          serviceVars>>

(***************************************************************************)
(* Bounds of the model.                                                    *)
(***************************************************************************)
MaxRecords == 3

MaxDays == 10

\* files stored per store
MaxFiles == 2

\* requests served by the guarded routes
MaxRequests == 2

\* accepted sends of a chat
MaxSends == 2

\* the largest number of records in a store of absences
MaxAbsences == 4

(***************************************************************************)
(* Query strings and keywords.                                             *)
(***************************************************************************)
KW_attendance_rate == <<"a","t","t","e","n","d","a","n","c","e"," ","r","a","t","e">>

KW_rate == <<"r","a","t","e">>

KW_percentage == <<"p","e","r","c","e","n","t","a","g","e">>

KW_absent == <<"a","b","s","e","n","t">>

KW_missing == <<"m","i","s","s","i","n","g">>

KW_trend == <<"t","r","e","n","d">>

KW_pattern == <<"p","a","t","t","e","r","n">>

KW_student == <<"s","t","u","d","e","n","t">>

KW_performance == <<"p","e","r","f","o","r","m","a","n","c","e">>

Q_rateTrendDoc == <<"W","h","a","t"," ","i","s"," ","t","h","e"," ","a","t","t","e","n","d","a","n","c","e"," ","r","a","t","e"," ","t","r","e","n","d","?">>

Q_whatsRate == <<"W","h","a","t","'","s"," ","t","h","e"," ","a","t","t","e","n","d","a","n","c","e"," ","r","a","t","e","?">>

Q_rateTrend == <<"r","a","t","e"," ","t","r","e","n","d">>

Q_trendRateUpper == <<"T","r","e","n","d"," ","o","f"," ","R","A","T","E">>

Q_percentMissing == <<"P","e","r","c","e","n","t","a","g","e"," ","m","i","s","s","i","n","g">>

Q_mostAbsent == <<"w","h","o"," ","i","s"," ","m","o","s","t"," ","a","b","s","e","n","t","?">>

Q_absentPattern == <<"a","b","s","e","n","t"," ","p","a","t","t","e","r","n">>

Q_showTrends == <<"S","h","o","w"," ","m","e"," ","a","t","t","e","n","d","a","n","c","e"," ","t","r","e","n","d","s">>

Q_studentPerformance == <<"s","t","u","d","e","n","t"," ","p","e","r","f","o","r","m","a","n","c","e">>

Q_studentOnly == <<"w","h","i","c","h"," ","s","t","u","d","e","n","t","?">>

Q_separate == <<"s","e","p","a","r","a","t","e"," ","l","i","s","t","s">>

Q_hello == <<"h","e","l","l","o">>

Queries ==
  { Q_rateTrendDoc, Q_whatsRate, Q_rateTrend, Q_trendRateUpper,
    Q_percentMissing, Q_mostAbsent, Q_absentPattern, Q_showTrends,
    Q_studentPerformance, Q_studentOnly, Q_separate, Q_hello }

UpperCase ==
  << "A","B","C","D","E","F","G","H","I","J","K","L","M",
     "N","O","P","Q","R","S","T","U","V","W","X","Y","Z" >>

LowerCase ==
  << "a","b","c","d","e","f","g","h","i","j","k","l","m",
     "n","o","p","q","r","s","t","u","v","w","x","y","z" >>

\* String.prototype.toLowerCase, one character
toLowerChar(c) ==
  IF \E i \in 1..26 : UpperCase[i] = c
    THEN LowerCase[CHOOSE i \in 1..26 : UpperCase[i] = c]
    ELSE c

toLowerCase(s) == [i \in 1..Len(s) |-> toLowerChar(s[i])]

\* String.prototype.includes: k occurs in s as a contiguous substring
includes(s, k) ==
  \E i \in 1..(Len(s) - Len(k) + 1) : SubSeq(s, i, i + Len(k) - 1) = k

(***************************************************************************)
(* JavaScript numbers and arrays.                                          *)
(* A number is a fraction [num, den]; den = 0 stands for NaN (0 / 0).      *)
(***************************************************************************)
Num(n) == [num |-> n, den |-> 1]

NaN == [num |-> 0, den |-> 0]

isNaN(a) == a.den = 0

\* a > b, a < b, a >= b on numbers: every comparison with NaN is false
gt(a, b) == ~isNaN(a) /\ ~isNaN(b) /\ a.num * b.den > b.num * a.den

lt(a, b) == gt(b, a)

ge(a, b) == ~isNaN(a) /\ ~isNaN(b) /\ a.num * b.den >= b.num * a.den

numEq(a, b) == ~isNaN(a) /\ ~isNaN(b) /\ a.num * b.den = b.num * a.den

add(a, b) ==
  IF isNaN(a) \/ isNaN(b) THEN NaN
  ELSE [num |-> a.num * b.den + b.num * a.den, den |-> a.den * b.den]

sub(a, b) ==
  IF isNaN(a) \/ isNaN(b) THEN NaN
  ELSE [num |-> a.num * b.den - b.num * a.den, den |-> a.den * b.den]

\* a / n for an integer n >= 0; x / 0 is NaN for x = 0 (the only case here
\* with n = 0 is the empty sum)
divInt(a, n) ==
  IF isNaN(a) \/ n = 0 THEN NaN ELSE [num |-> a.num, den |-> a.den * n]

\* relative index of Array.prototype.slice
relIndex(k, len) ==
  IF k < 0 THEN (IF len + k < 0 THEN 0 ELSE len + k)
  ELSE (IF k > len THEN len ELSE k)

\* arr.slice(start, end); indices are 0-based as in the source
slice(arr, start, end) ==
  LET from == relIndex(start, Len(arr))
      to   == relIndex(end, Len(arr))
  IN  IF from >= to THEN <<>> ELSE SubSeq(arr, from + 1, to)

\* arr.slice(start)
sliceFrom(arr, start) == slice(arr, start, Len(arr))

RECURSIVE reverse(_)
reverse(arr) ==
  IF arr = <<>> THEN <<>> ELSE Append(reverse(Tail(arr)), Head(arr))

\* the comparators passed to Array.prototype.sort, as the sign of
\* comparator(a, b): negative puts a first
compare(a, b, by) ==
  CASE by = "absenceCountDesc" -> b.absenceCount - a.absenceCount
    [] by = "countDesc"        -> b.count - a.count
    [] by = "dateAsc"          -> a.date - b.date
    [] by = "dateDesc"         -> b.date - a.date
    [] by = "attendanceRateDesc" ->
         IF gt(b.attendanceRate, a.attendanceRate) THEN 1
         ELSE IF lt(b.attendanceRate, a.attendanceRate) THEN -1 ELSE 0
    [] by = "attendance_rateDesc" ->
         IF gt(b.attendance_rate, a.attendance_rate) THEN 1
         ELSE IF lt(b.attendance_rate, a.attendance_rate) THEN -1 ELSE 0

\* one step of a stable sort: x goes behind every element that does not
\* have to follow it
insertSorted(sorted, x, by) ==
  LET k == Cardinality({i \in DOMAIN sorted : compare(sorted[i], x, by) <= 0})
  IN  SubSeq(sorted, 1, k) \o <<x>> \o SubSeq(sorted, k + 1, Len(sorted))

\* Array.prototype.sort (stable since ES2019), also the ORDER BY of a query
RECURSIVE sort(_, _)
sort(arr, by) ==
  IF arr = <<>> THEN <<>>
  ELSE insertSorted(sort(SubSeq(arr, 1, Len(arr) - 1), by), arr[Len(arr)], by)

(***************************************************************************)
(* The record store.                                                       *)
(***************************************************************************)
\* the students: display name (first_name + ' ' + last_name) and section
\* students 1 and 3 are namesakes (student_number is unique, names are not)
Roster ==
  << [name |-> "Zoe Cruz",  sectionId |-> 1],
     [name |-> "Amy Diaz",  sectionId |-> 2],
     [name |-> "Zoe Cruz",  sectionId |-> 1] >>

Students == DOMAIN Roster

Sections == {Roster[s].sectionId : s \in Students}

studentName(s) == Roster[s].name

sectionOf(s) == Roster[s].sectionId

\* a Saturday and the Sunday after it (getDay() is 6 and 0)
Dates == {6, 7}

Status == {"present", "absent"}

\* the users that submit and query: the beadle of section 1 and the adviser
\* of section 2
Users ==
  { [id |-> 1, role |-> "beadle"], [id |-> 2, role |-> "adviser"] }

\* a stored record; the records of a section are submitted by its user
AttendanceRecord(s, d, st) ==
  [studentId |-> s, sectionId |-> sectionOf(s), date |-> d, status |-> st,
   submittedBy |-> sectionOf(s)]

\* the clock, as a day number
Today == MaxDays

\* stores of a few records of several students, in every insertion order;
\* attendance_records_student_id_date_key allows one record per student and day
SmallStores ==
  { w \in UNION { [1..n -> (Students \X Dates) \X Status] : n \in 0..MaxRecords } :
      \A i, j \in DOMAIN w : i # j => w[i][1] # w[j][1] }

\* stores of one student marked on every day 1..n
DailyStores == UNION { [1..n -> Status] : n \in 0..MaxDays }

\* stores of absent records only, in every insertion order
AbsenceStores ==
  { w \in UNION { [1..n -> Students \X Dates] : n \in 0..MaxAbsences } :
      \A i, j \in DOMAIN w : i # j => w[i] # w[j] }

AbsenceInitialStores ==
  { [i \in DOMAIN w |-> AttendanceRecord(w[i][1], w[i][2], "absent")] :
      w \in AbsenceStores }

SmallInitialStores ==
  { [i \in DOMAIN w |-> AttendanceRecord(w[i][1][1], w[i][1][2], w[i][2])] :
      w \in SmallStores }

DailyInitialStores ==
  { [i \in DOMAIN p |-> AttendanceRecord(1, i, p[i])] : p \in DailyStores }

(***************************************************************************)
(* Aggregator.                                                             *)
(***************************************************************************)
\* (present / total) * 100, and 0 for an empty group
attendanceRate(present, total) ==
  IF total > 0 THEN [num |-> present * 100, den |-> total] ELSE Num(0)

\* countRecord with absent++ outside the else branch
countRecordAbsentAlways(stat, status) ==
  [stat EXCEPT !.total = @ + 1,
               !.present = IF status = "present" THEN @ + 1 ELSE @,
               !.absent = @ + 1]

\* the body of the reduce callbacks: total++, then present++ or absent++
countRecord(stat, status) ==
  [stat EXCEPT !.total = @ + 1,
               !.present = IF status = "present" THEN @ + 1 ELSE @,
               !.absent = IF status = "present" THEN @ ELSE @ + 1]

\* the property a reduce groups by
groupKey(record, groupBy) ==
  CASE groupBy = "day"     -> record.date
    [] groupBy = "week"    -> record.date - (record.date % 7)
    [] groupBy = "student" -> record.studentId
    [] groupBy = "name"    -> studentName(record.studentId)

\* records.reduce((acc, record) => ..., {}) followed by Object.values(acc):
\* one entry per key, in the order in which the keys first occur
RECURSIVE reduceStats(_, _, _)
reduceStats(recs, groupBy, acc) ==
  IF recs = <<>> THEN acc
  ELSE
    LET record == Head(recs)
        key    == groupKey(record, groupBy)
        acc1   == IF \E i \in DOMAIN acc : acc[i].key = key THEN acc
                  ELSE Append(acc, [key |-> key, date |-> record.date,
                                    present |-> 0, absent |-> 0, total |-> 0])
        idx    == CHOOSE i \in DOMAIN acc1 : acc1[i].key = key
    IN  reduceStats(Tail(recs), groupBy,
                    [acc1 EXCEPT ![idx] = countRecord(@, record.status)])

\* .map(stat => ({...stat, attendanceRate: stat.total > 0 ? ... : 0}))
withRate(stats) ==
  [i \in DOMAIN stats |->
     [key |-> stats[i].key, date |-> stats[i].date,
      present |-> stats[i].present, absent |-> stats[i].absent,
      total |-> stats[i].total,
      attendanceRate |-> attendanceRate(stats[i].present, stats[i].total)]]

countWhere(recs, status) ==
  Cardinality({i \in DOMAIN recs : recs[i].status = status})

\* whereClause.submittedBy = userId when role === 'beadle'
roleFilter(recs, user) ==
  LET own(r) == user.role = "beadle" => r.submittedBy = user.id
  IN  SelectSeq(recs, own)

\* the optional filters of a where clause; 0 stands for a filter not given
whereFilter(recs, sectionId, startDate, endDate) ==
  LET match(r) == /\ (sectionId # 0 => r.sectionId = sectionId)
                  /\ (startDate # 0 => r.date >= startDate)
                  /\ (endDate # 0 => r.date <= endDate)
  IN  SelectSeq(recs, match)

\* date > now - days and date <= now; midnight of the first day precedes
\* the time of day of startDate
lastDays(recs, days) ==
  LET recent(r) == r.date > Today - days /\ r.date <= Today
  IN  SelectSeq(recs, recent)

(***************************************************************************)
(* Backend /ai/query (routes/ai.ts).                                       *)
(***************************************************************************)
aiQueryIntent(query) ==
  LET lowerQuery == toLowerCase(query)
  IN  IF includes(lowerQuery, KW_attendance_rate) \/ includes(lowerQuery, KW_percentage)
        THEN "rate"
      ELSE IF includes(lowerQuery, KW_absent) \/ includes(lowerQuery, KW_missing)
        THEN "absence"
      ELSE IF includes(lowerQuery, KW_trend) \/ includes(lowerQuery, KW_pattern)
        THEN "trend"
      ELSE IF includes(lowerQuery, KW_student) /\ includes(lowerQuery, KW_performance)
        THEN "student_performance"
      ELSE "default"

getAttendanceStats(user) ==
  LET rows           == roleFilter(records, user)
      totalRecords   == Len(rows)
      presentRecords == countWhere(rows, "present")
  IN  [totalRecords |-> totalRecords,
       presentRecords |-> presentRecords,
       absentRecords |-> totalRecords - presentRecords,
       attendanceRate |-> attendanceRate(presentRecords, totalRecords)]

\* one entry of studentAbsenceCount / topAbsentStudents
absenceEntry(stat) ==
  [studentId |-> stat.key, studentName |-> studentName(stat.key),
   absenceCount |-> stat.total]

getAbsenceAnalysis(user) ==
  LET isAbsent(r)   == r.status = "absent"
      absentRecords == SelectSeq(roleFilter(records, user), isAbsent)
      counted       == reduceStats(absentRecords, "student", <<>>)
      studentAbsenceCount == [i \in DOMAIN counted |-> absenceEntry(counted[i])]
  IN  [totalAbsences |-> Len(absentRecords),
       topAbsentees |-> slice(sort(studentAbsenceCount, "absenceCountDesc"), 0, 5)]

\* x?.attendanceRate || 0 of the last elements of weeklyAverages
rateOrZero(arr) ==
  IF arr = <<>> THEN Num(0) ELSE arr[1].attendanceRate

getTrendAnalysis(user) ==
  LET rows == sort(lastDays(roleFilter(records, user), 30), "dateAsc")
      weeklyAverages == withRate(reduceStats(rows, "week", <<>>))
      recentWeek     == rateOrZero(sliceFrom(weeklyAverages, -1))
      previousWeek   == rateOrZero(slice(weeklyAverages, -2, -1))
  IN  [weeklyAverages |-> weeklyAverages,
       trendDirection |-> IF gt(recentWeek, previousWeek) THEN "improving"
                          ELSE IF lt(recentWeek, previousWeek) THEN "declining"
                          ELSE "stable",
       recentWeek |-> recentWeek,
       previousWeek |-> previousWeek]

\* one entry of studentPerformance
performanceEntry(stat) ==
  [studentId |-> stat.key, studentName |-> studentName(stat.key),
   present |-> stat.present, absent |-> stat.absent, total |-> stat.total,
   attendanceRate |-> stat.attendanceRate]

getStudentPerformance(user) ==
  LET stats == withRate(reduceStats(roleFilter(records, user), "student", <<>>))
      studentPerformance ==
        sort([i \in DOMAIN stats |-> performanceEntry(stats[i])], "attendanceRateDesc")
  IN  [topPerformers |-> slice(studentPerformance, 0, 5),
       needsAttention |-> reverse(sliceFrom(studentPerformance, -5))]

\* rateLabel with > in place of >=
rateLabelStrict(rate) ==
  IF gt(rate, Num(90)) THEN "excellent"
  ELSE IF gt(rate, Num(80)) THEN "good"
  ELSE "needs attention"

\* the closing line of the overview messages
rateLabel(rate) ==
  IF ge(rate, Num(90)) THEN "excellent"
  ELSE IF ge(rate, Num(80)) THEN "good"
  ELSE "needs attention"

\* Number.prototype.toFixed(1) of a rate >= 0: the digits before and the digit
\* behind the decimal point, the larger candidate on a tie
toFixed(rate) ==
  LET n == (2 * rate.num * 10 + rate.den) \div (2 * rate.den)
  IN  [whole |-> n \div 10, tenth |-> n % 10]

\* no rate is printed in the message
NoText == [whole |-> -1, tenth |-> 0]

\* what a handler answered: the fields a handler does not produce keep
\* these values
NoResult ==
  [op |-> "none", user |-> 0, query |-> <<>>, intent |-> "none",
   message |-> "none", label |-> "none", rateText |-> NoText,
   totalRecords |-> 0, presentRecords |-> 0, absentRecords |-> 0,
   attendanceRate |-> Num(0), recentRate |-> Num(0),
   groupBy |-> "none", groups |-> <<>>, dateTexts |-> <<>>,
   limit |-> 0, ranking |-> <<>>, needsAttention |-> <<>>,
   trendDirection |-> "none", recentAverage |-> Num(0), previousAverage |-> Num(0)]

\* POST /ai/query
aiQuery(user, query) ==
  LET intent == aiQueryIntent(query)
      base   == [NoResult EXCEPT !.op = "ai/query", !.user = user.id,
                                 !.query = query, !.intent = intent]
  IN  CASE intent = "rate" ->
             LET stats == getAttendanceStats(user)
             IN  [base EXCEPT !.message = "attendance_overview",
                              !.totalRecords = stats.totalRecords,
                              !.presentRecords = stats.presentRecords,
                              !.absentRecords = stats.absentRecords,
                              !.attendanceRate = stats.attendanceRate,
                              !.rateText = toFixed(stats.attendanceRate),
                              !.label = rateLabel(stats.attendanceRate)]
        [] intent = "absence" ->
             LET absentData == getAbsenceAnalysis(user)
             IN  [base EXCEPT !.message = "absence_analysis",
                              !.absentRecords = absentData.totalAbsences,
                              !.limit = 5,
                              !.ranking = absentData.topAbsentees]
        [] intent = "trend" ->
             LET trendData == getTrendAnalysis(user)
             IN  [base EXCEPT !.message = "trend_analysis",
                              !.groupBy = "week",
                              !.groups = trendData.weeklyAverages,
                              !.trendDirection = trendData.trendDirection,
                              !.recentAverage = trendData.recentWeek,
                              !.previousAverage = trendData.previousWeek]
        [] intent = "student_performance" ->
             LET studentData == getStudentPerformance(user)
             IN  [base EXCEPT !.message = "student_performance",
                              !.limit = 5,
                              !.ranking = studentData.topPerformers,
                              !.needsAttention = studentData.needsAttention]
        [] OTHER -> [base EXCEPT !.message = "default_help"]

(***************************************************************************)
(* UI-side assistant (components/AIAssistant.tsx).                         *)
(***************************************************************************)
insightsIntent(query) ==
  LET lowerQuery == toLowerCase(query)
  IN  IF includes(lowerQuery, KW_rate) \/ includes(lowerQuery, KW_percentage)
        THEN "rate"
      ELSE IF includes(lowerQuery, KW_absent) \/ includes(lowerQuery, KW_missing)
        THEN "absence"
      ELSE IF includes(lowerQuery, KW_trend) \/ includes(lowerQuery, KW_pattern)
        THEN "trend"
      ELSE "default"

\* .gte("date", 30 days ago).order("date", {ascending: false}).limit(100)
fetchRecent ==
  LET recent(r) == r.date >= Today - 30
  IN  slice(sort(SelectSeq(records, recent), "dateDesc"), 0, 100)

\* Object.entries(frequentAbsentees): [name, count] pairs
absenteeEntry(stat) == [studentName |-> stat.key, count |-> stat.total]

\* dailyRates of the trend branch
dailyRate(stat) ==
  [date |-> stat.key,
   attendanceRate |-> [num |-> stat.present * 100, den |-> stat.total]]

\* the locales of the browsers that show the assistant
Locales == {"en-US", "en-GB"}

\* new Date(date).toLocaleDateString(): the date with the order in which
\* its numbers are printed, month/day/year in en-US and day/month/year in en-GB
toLocaleDateString(date, locale) ==
  [date |-> date, order |-> IF locale = "en-US" THEN "mdy" ELSE "dmy"]

\* the answer when attendanceData is null or empty
insightsNoData(query) ==
  [NoResult EXCEPT !.op = "getAttendanceInsights", !.query = query,
                   !.message = "no_data"]

getAttendanceInsights(query, locale) ==
  LET attendanceData == fetchRecent
      base           == [NoResult EXCEPT !.op = "getAttendanceInsights", !.query = query]
      totalRecords   == Len(attendanceData)
      presentCount   == countWhere(attendanceData, "present")
      absentCount    == totalRecords - presentCount
      rate           == attendanceRate(presentCount, totalRecords)
      recentDays     == slice(attendanceData, 0, 7)
      recentRate     == attendanceRate(countWhere(recentDays, "present"), Len(recentDays))
      intent         == insightsIntent(query)
      stats          == [base EXCEPT !.intent = intent,
                                     !.totalRecords = totalRecords,
                                     !.presentRecords = presentCount,
                                     !.absentRecords = absentCount,
                                     !.attendanceRate = rate,
                                     !.recentRate = recentRate]
  IN  IF attendanceData = <<>> THEN insightsNoData(query)
      ELSE CASE intent = "rate" ->
             [stats EXCEPT !.message = "rate_overview",
                           !.rateText = toFixed(rate),
                           !.trendDirection =
                              IF gt(recentRate, rate) THEN "improving"
                              ELSE IF lt(recentRate, rate) THEN "declining"
                              ELSE "stable"]
        [] intent = "absence" ->
             LET isAbsent(r) == r.status = "absent"
                 counted == reduceStats(SelectSeq(attendanceData, isAbsent), "name", <<>>)
                 frequentAbsentees == [i \in DOMAIN counted |-> absenteeEntry(counted[i])]
             IN  [stats EXCEPT !.message = "absence_analysis",
                               !.limit = 3,
                               !.ranking = slice(sort(frequentAbsentees, "countDesc"), 0, 3)]
        [] intent = "trend" ->
             LET dailyStats == reduceStats(attendanceData, "day", <<>>)
                 dailyRates ==
                   sliceFrom(sort([i \in DOMAIN dailyStats |-> dailyRate(dailyStats[i])],
                                  "dateAsc"), -7)
             IN  [stats EXCEPT !.message = "trend_analysis",
                               !.rateText = toFixed(rate),
                               !.groupBy = "day",
                               !.groups = dailyRates,
                               !.dateTexts =
                                  [i \in DOMAIN dailyRates |->
                                     toLocaleDateString(dailyRates[i].date, locale)],
                               !.trendDirection =
                                  IF Len(dailyRates) > 1
                                    THEN (IF gt(dailyRates[Len(dailyRates)].attendanceRate,
                                                dailyRates[1].attendanceRate)
                                            THEN "improving" ELSE "declining")
                                    ELSE "stable"]
        [] OTHER ->
             [stats EXCEPT !.message = "attendance_overview",
                           !.rateText = toFixed(rate),
                           !.label = rateLabel(rate)]

(***************************************************************************)
(* Attendance submission: the backend's POST /attendance/mark and the      *)
(* handleSubmit of the UI's Attendance pages.                              *)
(***************************************************************************)
\* the browsers and API clients that submit attendance at the same time
Clients == {1, 2}

\* the users that submit: the beadle of section 1 and a coordinator
Submitters ==
  { [id |-> 1, role |-> "beadle"], [id |-> 3, role |-> "coordinator"] }

\* section.students
sectionStudents(sectionId) == {s \in Students : sectionOf(s) = sectionId}

\* the records arrays that are submitted for section 1: both students, one
\* student, a student twice, a student of another section
Payloads ==
  { << [studentId |-> 1, status |-> "present"], [studentId |-> 3, status |-> "present"] >>,
    << [studentId |-> 1, status |-> "absent"],  [studentId |-> 3, status |-> "absent"] >>,
    << [studentId |-> 1, status |-> "absent"] >>,
    << [studentId |-> 3, status |-> "present"], [studentId |-> 3, status |-> "absent"] >>,
    << [studentId |-> 2, status |-> "present"] >> }

\* Object.values(attendanceRecords) of the page: one entry per student of
\* the section
PagePayloads ==
  { p \in Payloads :
      /\ \A i, j \in DOMAIN p : i # j => p[i].studentId # p[j].studentId
      /\ \A i \in DOMAIN p : p[i].studentId \in sectionStudents(1) }

\* a client that submits nothing
Idle ==
  [pc |-> "idle", via |-> "none", user |-> 0, role |-> "none", sectionId |-> 0,
   date |-> 0, payload |-> <<>>, before |-> <<>>, status |-> 0, code |-> "none"]

\* where: { sectionId, date }
existingAttendance(sectionId, date) ==
  LET match(r) == r.sectionId = sectionId /\ r.date = date
  IN  SelectSeq(records, match)

\* the rows of a submission
attendanceRows(s) ==
  [i \in DOMAIN s.payload |->
     [studentId |-> s.payload[i].studentId, sectionId |-> s.sectionId,
      date |-> s.date, status |-> s.payload[i].status, submittedBy |-> s.user]]

\* the insert that puts in every row, whatever the table holds
insertUnchecked(rows) == [ok |-> TRUE, table |-> records \o rows]

\* one INSERT statement under the unique index on (student_id, date): every
\* row goes in, or none and the statement fails
insert(rows) ==
  LET all == records \o rows
  IN  IF \E i, j \in DOMAIN all :
           i # j /\ all[i].studentId = all[j].studentId /\ all[i].date = all[j].date
        THEN [ok |-> FALSE, table |-> records]
        ELSE [ok |-> TRUE, table |-> all]

\* the row-level security of the attendance table: rows are deleted for
\* coordinators and admins, and for nobody else (without an error)
canDelete(role) == role \in {"coordinator", "admin"}

\* the sectionId of a submission: section 1, and an id without a section row
MarkSections == {1, 3}

\* a mutation of POST /attendance/mark that does not validate the students
MarkCheckAnyStudent(c) ==
  \E user \in Submitters, payload \in Payloads, date \in {6}, sectionId \in MarkSections :
    LET request == [Idle EXCEPT !.via = "mark", !.user = user.id, !.role = user.role,
                                !.sectionId = sectionId, !.date = date,
                                !.payload = payload,
                                !.before = existingAttendance(sectionId, date)]
    IN  /\ submission[c].pc = "idle"
        /\ submission' = [submission EXCEPT ![c] =
             IF sectionId \notin Sections
               THEN [request EXCEPT !.pc = "done", !.status = 404,
                                    !.code = "SECTION_NOT_FOUND"]
             ELSE IF existingAttendance(sectionId, date) # <<>>
               THEN [request EXCEPT !.pc = "done", !.status = 409,
                                    !.code = "ATTENDANCE_EXISTS"]
             ELSE [request EXCEPT !.pc = "checked"]]
        /\ UNCHANGED <<records, res, attendanceStats, studentAttendance,
                       analyticsIsLoading, call, backendVars>>

\* POST /attendance/mark up to the validation of the students: 404 when the
\* section has no row, 409 when the section has records on the date, 400 for
\* a student of another section
MarkCheck(c) ==
  \E user \in Submitters, payload \in Payloads, date \in {6}, sectionId \in MarkSections :
    LET request == [Idle EXCEPT !.via = "mark", !.user = user.id, !.role = user.role,
                                !.sectionId = sectionId, !.date = date,
                                !.payload = payload,
                                !.before = existingAttendance(sectionId, date)]
    IN  /\ submission[c].pc = "idle"
        /\ submission' = [submission EXCEPT ![c] =
             IF sectionId \notin Sections
               THEN [request EXCEPT !.pc = "done", !.status = 404,
                                    !.code = "SECTION_NOT_FOUND"]
             ELSE IF existingAttendance(sectionId, date) # <<>>
               THEN [request EXCEPT !.pc = "done", !.status = 409,
                                    !.code = "ATTENDANCE_EXISTS"]
             ELSE IF \E i \in DOMAIN payload :
                       payload[i].studentId \notin sectionStudents(sectionId)
               THEN [request EXCEPT !.pc = "done", !.status = 400,
                                    !.code = "INVALID_STUDENTS"]
             ELSE [request EXCEPT !.pc = "checked"]]
        /\ UNCHANGED <<records, res, attendanceStats, studentAttendance,
                       analyticsIsLoading, call, backendVars>>

\* prisma.attendanceRecord.createMany and the response: 201, or the error
\* handler's 409 for the P2002 of a failed insert
MarkCreate(c) ==
  LET done == insert(attendanceRows(submission[c]))
  IN  /\ submission[c].pc = "checked"
      /\ records' = done.table
      /\ submission' = [submission EXCEPT
                          ![c].pc = "done",
                          ![c].status = IF done.ok THEN 201 ELSE 409,
                          ![c].code = IF done.ok THEN "created" ELSE "DUPLICATE_ENTRY"]
      /\ UNCHANGED <<res, attendanceStats, studentAttendance, analyticsIsLoading,
                     call, backendVars>>

\* handleSubmit up to the end of its delete request, whose result it does
\* not read
SubmitDelete(c) ==
  \E user \in Submitters, payload \in PagePayloads, date \in {6} :
    LET sectionId == 1
        keep(r)   == ~(r.sectionId = sectionId /\ r.date = date)
    IN  /\ submission[c].pc = "idle"
        /\ submission' = [submission EXCEPT ![c] =
             [Idle EXCEPT !.pc = "deleted", !.via = "handleSubmit",
                          !.user = user.id, !.role = user.role,
                          !.sectionId = sectionId, !.date = date,
                          !.payload = payload,
                          !.before = existingAttendance(sectionId, date)]]
        /\ records' = IF canDelete(user.role) THEN SelectSeq(records, keep) ELSE records
        /\ UNCHANGED <<res, attendanceStats, studentAttendance, analyticsIsLoading,
                     call, backendVars>>

\* handleSubmit from its insert request on, to the success toast or the
\* error toast
SubmitInsert(c) ==
  LET done == insert(attendanceRows(submission[c]))
  IN  /\ submission[c].pc = "deleted"
      /\ records' = done.table
      /\ submission' = [submission EXCEPT
                          ![c].pc = "done",
                          ![c].code = IF done.ok THEN "toast_success" ELSE "toast_error"]
      /\ UNCHANGED <<res, attendanceStats, studentAttendance, analyticsIsLoading,
                     call, backendVars>>

\* the client has seen the outcome of its submission
Acknowledge(c) ==
  /\ submission[c].pc = "done"
  /\ submission' = [submission EXCEPT ![c] = Idle]
  /\ UNCHANGED <<records, res, attendanceStats, studentAttendance, analyticsIsLoading,
                     call, backendVars>>

(***************************************************************************)
(* Insight queries of several callers at the same time, with a database    *)
(* that can fail to answer.                                                *)
(***************************************************************************)
\* the users and browsers that ask at the same time
Callers == {1, 2}

\* what the database client gives to a handler
FetchOutcomes == {"rows", "fails"}

\* a caller that asks nothing
NoCall ==
  [pc |-> "idle", via |-> "none", user |-> 0, query |-> <<>>, locale |-> "none",
   fetch |-> "none", answer |-> NoResult]

\* the request that the first waiting caller, in the order of Callers, made
firstRequest(c) ==
  LET waiting == {d \in Callers : call[d].pc = "asked"}
  IN  call[CHOOSE d \in waiting : \A e \in waiting : d <= e]

\* the request of an invocation: req.body and req.user of the route handler,
\* the input in the closure of handleSend
requestOf(c) == call[c]

\* the error handler's answer to an exception without status
internalError(request) ==
  [NoResult EXCEPT !.op = "ai/query", !.user = request.user, !.query = request.query,
                   !.intent = aiQueryIntent(request.query),
                   !.message = "INTERNAL_ERROR"]

\* whether the handler reads the database for this request
fetches(request) ==
  request.via = "getAttendanceInsights" \/ aiQueryIntent(request.query) # "default"

\* the answer to a request: the catch block of POST /ai/query passes an
\* exception of prisma to the error handler; the Supabase client returns a
\* failure as { data: null, error }, and getAttendanceInsights reads data only
answerTo(request, fetch) ==
  IF request.via = "ai/query"
    THEN IF fetch = "fails" /\ fetches(request)
           THEN internalError(request)
           ELSE aiQuery(CHOOSE u \in Users : u.id = request.user, request.query)
    ELSE IF fetch = "fails"
           THEN insightsNoData(request.query)
           ELSE getAttendanceInsights(request.query, request.locale)

\* a request arrives at POST /ai/query
AskBackend(c) ==
  \E user \in Users, query \in Queries :
    /\ call[c].pc = "idle"
    /\ call' = [call EXCEPT ![c] = [NoCall EXCEPT !.pc = "asked", !.via = "ai/query",
                                                  !.user = user.id, !.query = query]]
    /\ UNCHANGED <<records, res, attendanceStats, studentAttendance,
                   analyticsIsLoading, submission, backendVars>>

\* handleSend of an assistant calls getAttendanceInsights(input)
AskAssistant(c) ==
  \E query \in Queries, locale \in Locales :
    /\ call[c].pc = "idle"
    /\ call' = [call EXCEPT ![c] = [NoCall EXCEPT !.pc = "asked",
                                                  !.via = "getAttendanceInsights",
                                                  !.query = query, !.locale = locale]]
    /\ UNCHANGED <<records, res, attendanceStats, studentAttendance,
                   analyticsIsLoading, submission, backendVars>>

\* the database has answered or failed, and the handler answers its caller
Answer(c) ==
  \E fetch \in FetchOutcomes :
    /\ call[c].pc = "asked"
    /\ call' = [call EXCEPT ![c].pc = "answered",
                            ![c].fetch = IF fetches(requestOf(c)) THEN fetch ELSE "none",
                            ![c].answer = answerTo(requestOf(c), fetch)]
    /\ UNCHANGED <<records, res, attendanceStats, studentAttendance,
                   analyticsIsLoading, submission, backendVars>>

\* the caller has read its answer
Receive(c) ==
  /\ call[c].pc = "answered"
  /\ call' = [call EXCEPT ![c] = NoCall]
  /\ UNCHANGED <<records, res, attendanceStats, studentAttendance,
                 analyticsIsLoading, submission, backendVars>>

(***************************************************************************)
(* Backend /analytics routes.                                              *)
(***************************************************************************)
\* the averages of /analytics/trends: reduce(sum + rate, 0) / length
RECURSIVE sumRates(_)
sumRates(stats) ==
  IF stats = <<>> THEN Num(0)
  ELSE add(stats[1].attendanceRate, sumRates(Tail(stats)))

average(stats) == divInt(sumRates(stats), Len(stats))

\* GET /analytics/attendance
analyticsAttendance(user, sectionId, startDate, endDate, groupBy) ==
  LET rows == sort(whereFilter(roleFilter(records, user), sectionId, startDate, endDate),
                   "dateAsc")
      processedData ==
        IF groupBy = "day" THEN withRate(reduceStats(rows, "day", <<>>))
        ELSE IF groupBy = "week" THEN withRate(reduceStats(rows, "week", <<>>))
        ELSE <<>>
      totalRecords   == Len(rows)
      presentRecords == countWhere(rows, "present")
      studentStats   == withRate(reduceStats(rows, "student", <<>>))
      studentPerformance ==
        sort([i \in DOMAIN studentStats |-> performanceEntry(studentStats[i])],
             "attendanceRateDesc")
  IN  [NoResult EXCEPT !.op = "analytics/attendance", !.user = user.id,
                       !.totalRecords = totalRecords,
                       !.presentRecords = presentRecords,
                       !.absentRecords = totalRecords - presentRecords,
                       !.attendanceRate = attendanceRate(presentRecords, totalRecords),
                       !.groupBy = groupBy,
                       !.groups = processedData,
                       !.limit = 20,
                       !.ranking = slice(studentPerformance, 0, 20)]

\* Math.round(attendanceRate * 100) / 100
roundHundredths(rate) ==
  [num |-> (2 * rate.num * 100 + rate.den) \div (2 * rate.den), den |-> 100]

\* prisma.section.findMany({ orderBy: { name: 'asc' } }): the section rows
RECURSIVE sectionsByName(_)
sectionsByName(ids) ==
  IF ids = {} THEN <<>>
  ELSE LET first == CHOOSE a \in ids : \A b \in ids : a <= b
       IN  <<first>> \o sectionsByName(ids \ {first})

\* GET /analytics/sections: for every section, the records of the section
sectionStat(section) ==
  LET ofSection(r)      == r.sectionId = section
      attendanceRecords == SelectSeq(records, ofSection)
      totalRecords      == Len(attendanceRecords)
      presentRecords    == countWhere(attendanceRecords, "present")
  IN  [key |-> section, total |-> totalRecords, present |-> presentRecords,
       attendanceRate |-> roundHundredths(attendanceRate(presentRecords, totalRecords))]

analyticsSections(user) ==
  LET sections == sectionsByName(Sections)
  IN  [NoResult EXCEPT !.op = "analytics/sections", !.user = user.id,
                       !.groups = [i \in DOMAIN sections |-> sectionStat(sections[i])]]

\* Number(limit) of the query parameter: absent is the default 10, text that
\* is no number is NaN, and slice reads NaN as 0
numberOfLimit(limit) ==
  CASE limit.kind = "absent" -> 10
    [] limit.kind = "number" -> limit.value
    [] OTHER -> 0

\* GET /analytics/top-absent
topAbsent(user, limit, startDate, endDate) ==
  LET isAbsent(r)   == r.status = "absent"
      absentRecords ==
        SelectSeq(whereFilter(roleFilter(records, user), 0, startDate, endDate), isAbsent)
      counted       == reduceStats(absentRecords, "student", <<>>)
      studentAbsenceCount == [i \in DOMAIN counted |-> absenceEntry(counted[i])]
  IN  [NoResult EXCEPT !.op = "analytics/top-absent", !.user = user.id,
                       !.limit = numberOfLimit(limit),
                       !.absentRecords = Len(absentRecords),
                       !.ranking = slice(sort(studentAbsenceCount, "absenceCountDesc"),
                                         0, numberOfLimit(limit))]

\* GET /analytics/trends
analyticsTrends(user, days) ==
  LET rows        == sort(lastDays(roleFilter(records, user), days), "dateAsc")
      trends      == withRate(reduceStats(rows, "day", <<>>))
      recentTrend == sliceFrom(trends, -7)
      olderTrend  == slice(trends, -14, -7)
      recentAvg   == average(recentTrend)
      olderAvg    == average(olderTrend)
  IN  [NoResult EXCEPT !.op = "analytics/trends", !.user = user.id,
                       !.groupBy = "day",
                       !.groups = trends,
                       !.trendDirection =
                          IF gt(recentAvg, olderAvg) THEN "improving"
                          ELSE IF lt(recentAvg, olderAvg) THEN "declining"
                          ELSE "stable",
                       !.recentAverage = recentAvg,
                       !.previousAverage = olderAvg]

(***************************************************************************)
(* Analytics page (pages/Analytics.tsx).                                   *)
(***************************************************************************)
\* the daily statistics of fetchAttendanceData
processedStats(selectedSection, dateRange) ==
  LET inRange(r) == /\ r.sectionId = selectedSection
                    /\ r.date >= Today - dateRange
                    /\ r.date <= Today
  IN  sort(withRate(reduceStats(SelectSeq(records, inRange), "day", <<>>)), "dateAsc")

\* a row of the students query with its attendance!inner(status) array,
\* counted by the forEach over the array
studentSummary(s) ==
  LET ofStudent(r) == r.studentId = s
      counted      == reduceStats(SelectSeq(records, ofStudent), "student", <<>>)[1]
  IN  [student_id |-> s, student_name |-> studentName(s),
       present_days |-> counted.present,
       absent_days |-> counted.absent,
       total_days |-> counted.total,
       attendance_rate |-> attendanceRate(counted.present, counted.total)]

\* the student summary of fetchAttendanceData, one entry per student of the
\* section that has attendance, in the order of the rows
RECURSIVE processedStudents(_, _)
processedStudents(selectedSection, s) ==
  IF s \notin Students THEN <<>>
  ELSE IF sectionOf(s) = selectedSection /\ \E i \in DOMAIN records : records[i].studentId = s
    THEN <<studentSummary(s)>> \o processedStudents(selectedSection, s + 1)
    ELSE processedStudents(selectedSection, s + 1)

\* attendanceStats.reduce((sum, stat) => sum + stat.present, 0), and .absent
RECURSIVE sumField(_, _)
sumField(stats, field) ==
  IF stats = <<>> THEN 0
  ELSE (IF field = "present" THEN stats[1].present ELSE stats[1].absent)
       + sumField(Tail(stats), field)

getOverallStats ==
  LET totalPresent == sumField(attendanceStats, "present")
      totalAbsent  == sumField(attendanceStats, "absent")
  IN  [totalPresent |-> totalPresent, totalAbsent |-> totalAbsent,
       totalDays |-> totalPresent + totalAbsent,
       overallRate |-> attendanceRate(totalPresent, totalPresent + totalAbsent)]

\* recentAvg - olderAvg
getAttendanceTrend ==
  IF Len(attendanceStats) < 2 THEN Num(0)
  ELSE sub(average(sliceFrom(attendanceStats, -7)),
           average(slice(attendanceStats, -14, -7)))

(***************************************************************************)
(* Authentication and roles of the backend (middleware/auth.ts).           *)
(***************************************************************************)
\* the AppRole enum, lowest role first
Roles == <<"beadle", "adviser", "coordinator", "admin">>

\* rows of the users table; a token may name an id that has no row
UserIds == 1..4

NoUser == [id |-> 0, role |-> "none"]

\* Authorization headers: none, a token jwt.verify rejects (malformed, wrongly
\* signed or expired), and tokens signed for userId 1..5
Tokens ==
  { [kind |-> "none", userId |-> 0], [kind |-> "rejected", userId |-> 0] }
  \cup { [kind |-> "signed", userId |-> u] : u \in 1..5 }

\* prisma.user.findUnique answers, or throws
Lookups == {"answers", "throws"}

\* a mutation of authenticateToken that forgets the isActive test
authenticateTokenOfAnyUser(token, lookup) ==
  IF token.kind = "none"
    THEN [status |-> 401, code |-> "MISSING_TOKEN", user |-> NoUser]
  ELSE IF token.kind = "rejected"
    THEN [status |-> 401, code |-> "INVALID_TOKEN", user |-> NoUser]
  ELSE IF lookup = "throws"
    THEN [status |-> 500, code |-> "AUTH_ERROR", user |-> NoUser]
  ELSE IF token.userId \notin UserIds
    THEN [status |-> 401, code |-> "INVALID_TOKEN", user |-> NoUser]
  ELSE [status |-> 0, code |-> "next",
        user |-> [id |-> token.userId, role |-> users[token.userId].role]]

\* authenticateToken: the status it answers with (0: next()) and req.user
authenticateToken(token, lookup) ==
  IF token.kind = "none"
    THEN [status |-> 401, code |-> "MISSING_TOKEN", user |-> NoUser]
  ELSE IF token.kind = "rejected"
    THEN [status |-> 401, code |-> "INVALID_TOKEN", user |-> NoUser]
  ELSE IF lookup = "throws"
    THEN [status |-> 500, code |-> "AUTH_ERROR", user |-> NoUser]
  ELSE IF token.userId \notin UserIds \/ ~users[token.userId].isActive
    THEN [status |-> 401, code |-> "INVALID_TOKEN", user |-> NoUser]
  ELSE [status |-> 0, code |-> "next",
        user |-> [id |-> token.userId, role |-> users[token.userId].role]]

\* a mutation of requireRole that lets every authenticated user pass
requireRoleAnyone(allowedRoles, user) ==
  IF user = NoUser THEN [status |-> 401, code |-> "AUTH_REQUIRED"]
  ELSE [status |-> 0, code |-> "next"]

\* requireRole(allowedRoles): the status it answers with (0: next())
requireRole(allowedRoles, user) ==
  IF user = NoUser THEN [status |-> 401, code |-> "AUTH_REQUIRED"]
  ELSE IF user.role \notin allowedRoles
    THEN [status |-> 403, code |-> "INSUFFICIENT_PERMISSIONS"]
  ELSE [status |-> 0, code |-> "next"]

requireAdmin == {"admin"}

requireCoordinatorOrAdmin == {"coordinator", "admin"}

requireAdviserOrAbove == {"adviser", "coordinator", "admin"}

requireBeadleOrAbove == {"beadle", "adviser", "coordinator", "admin"}

(***************************************************************************)
(* File uploads: POST /files/upload of the backend (multer, S3 and the     *)
(* stored_files table) and the proof-upload modal of the UI, which writes  *)
(* to the Supabase storage bucket "attendance-files".                      *)
(***************************************************************************)
\* multer's limits.fileSize: parseInt(process.env.MAX_FILE_SIZE || '2097152')
fileSize == 2097152

\* ProofUploadModal's own limit
MAX_FILE_SIZE == 100 * 1024 * 1024

allowedTypes == {"image/jpeg", "image/png", "image/gif", "application/pdf", "text/csv"}

\* files a user can pick: sizes around both limits, an allowed and a
\* disallowed type
FileSizes == {fileSize, fileSize + 1, MAX_FILE_SIZE + 1}

Files ==
  { [size |-> s, mimetype |-> t] : s \in FileSizes, t \in {"image/png", "video/mp4"} }

NoFile == [size |-> 0, mimetype |-> "none"]

NoUpload == [status |-> 0, code |-> "none"]

\* Authorization headers of the upload requests: none, a beadle's token and
\* a coordinator's
UploadTokens == {t \in Tokens : t.kind = "none" \/ t.userId \in {1, 3}}

\* upload.single('file'): fileFilter runs on the part's header, the size limit
\* while the body streams in; either error goes to errorHandler
multer(sent) ==
  IF sent = NoFile THEN [status |-> 0, code |-> "next"]
  ELSE IF sent.mimetype \notin allowedTypes
    THEN [status |-> 500, code |-> "INTERNAL_ERROR"]
  ELSE IF sent.size > fileSize
    THEN [status |-> 413, code |-> "FILE_TOO_LARGE"]
  ELSE [status |-> 0, code |-> "next"]

\* POST /files/upload: authenticateToken, upload.single('file'), handler
FilesUpload ==
  /\ Len(storedFiles) < MaxFiles
  /\ \E token \in UploadTokens, lookup \in Lookups, sent \in Files \cup {NoFile},
        s3 \in {"stores", "throws"} :
       LET auth == authenticateToken(token, lookup)
           parsed == multer(sent)
       IN  IF auth.status # 0
             THEN /\ uploadRes' = [status |-> auth.status, code |-> auth.code]
                  /\ UNCHANGED storedFiles
           ELSE IF parsed.status # 0
             THEN /\ uploadRes' = parsed
                  /\ UNCHANGED storedFiles
           ELSE IF sent = NoFile
             THEN /\ uploadRes' = [status |-> 400, code |-> "NO_FILE"]
                  /\ UNCHANGED storedFiles
           ELSE IF s3 = "throws"
             THEN /\ uploadRes' = [status |-> 500, code |-> "INTERNAL_ERROR"]
                  /\ UNCHANGED storedFiles
           ELSE /\ storedFiles' =
                     Append(storedFiles,
                            [id |-> CHOOSE id \in 1..MaxFiles :
                                      \A i \in DOMAIN storedFiles : storedFiles[i].id # id,
                             size |-> sent.size, type |-> sent.mimetype,
                             uploadedBy |-> auth.user.id])
                /\ uploadRes' = [status |-> 201, code |-> "uploaded"]
  /\ UNCHANGED <<bucket, file, proofToast>>
  /\ UNCHANGED <<coreVars, submission, call, routeVars, extVars>>

\* ProofUploadModal.handleDrop and handleFileSelect
HandleFileSelect ==
  /\ \E selectedFile \in Files :
       IF selectedFile.size > MAX_FILE_SIZE
         THEN /\ proofToast' = "File too large"
              /\ UNCHANGED file
         ELSE /\ file' = selectedFile
              /\ UNCHANGED proofToast
  /\ UNCHANGED <<storedFiles, uploadRes, bucket>>
  /\ UNCHANGED <<coreVars, submission, call, routeVars, extVars>>

\* ProofUploadModal.handleUpload: supabase.storage.from("attendance-files")
\* .upload(filePath, file); the bucket is created without a size limit
HandleUpload ==
  /\ file # NoFile
  /\ Len(bucket) < MaxFiles
  /\ \E storage \in {"stores", "fails"} :
       IF storage = "fails"
         THEN /\ proofToast' = "Failed to upload proof"
              /\ UNCHANGED <<bucket, file>>
         ELSE /\ bucket' = Append(bucket, [size |-> file.size, type |-> file.mimetype])
              /\ proofToast' = "Proof uploaded successfully"
              /\ file' = NoFile
  /\ UNCHANGED <<storedFiles, uploadRes>>
  /\ UNCHANGED <<coreVars, submission, call, routeVars, extVars>>

(***************************************************************************)
(* The guarded routes of the backend.  A route is its chain of middleware: *)
(* authenticateToken, the role guard (allowed: the roles of requireRole,   *)
(* guarded FALSE when the route has none), auditMiddleware(action,         *)
(* tableName) and the handler, which answers ok or one of its own rejects  *)
(* (validation, not found, conflict), or throws into errorHandler.         *)
(***************************************************************************)
NoAudit == [action |-> "none", tableName |-> "none"]

audited(action, tableName) == [action |-> action, tableName |-> tableName]

route(method, router, path, guarded, allowed, audit, ok, rejects) ==
  [method |-> method, router |-> router, path |-> path, guarded |-> guarded,
   allowed |-> allowed, audit |-> audit, ok |-> ok, rejects |-> rejects]

AttendanceRoutes ==
  { route("POST", "attendance", "/mark", TRUE, requireBeadleOrAbove,
          audited("CREATE", "attendance_records"), 201, {400, 404, 409}),
    route("GET", "attendance", "/", TRUE, requireBeadleOrAbove, NoAudit, 200, {400}),
    route("GET", "attendance", "/stats", TRUE, requireBeadleOrAbove, NoAudit, 200, {}),
    route("PUT", "attendance", "/:id", TRUE, requireAdviserOrAbove,
          audited("UPDATE", "attendance_records"), 200, {400, 404}),
    route("DELETE", "attendance", "/:id", TRUE, requireAdviserOrAbove,
          audited("DELETE", "attendance_records"), 200, {404}) }

SectionRoutes ==
  { route("GET", "sections", "/", FALSE, {}, NoAudit, 200, {}),
    route("POST", "sections", "/", TRUE, requireCoordinatorOrAdmin,
          audited("CREATE", "sections"), 201, {400, 404, 409}),
    route("PUT", "sections", "/:id", TRUE, requireCoordinatorOrAdmin,
          audited("UPDATE", "sections"), 200, {400, 404, 409}),
    route("DELETE", "sections", "/:id", TRUE, requireCoordinatorOrAdmin,
          audited("DELETE", "sections"), 200, {404, 409}) }

UserRoutes ==
  { route("GET", "users", "/", TRUE, requireAdmin, NoAudit, 200, {}),
    route("GET", "users", "/:id", TRUE, requireAdmin, NoAudit, 200, {404}),
    route("POST", "users", "/", TRUE, requireAdmin,
          audited("CREATE", "users"), 201, {400, 409}),
    route("PUT", "users", "/:id", TRUE, requireAdmin,
          audited("UPDATE", "users"), 200, {400, 404, 409}),
    route("PUT", "users", "/:id/deactivate", TRUE, requireAdmin,
          audited("UPDATE", "users"), 200, {400, 404}),
    route("PUT", "users", "/:id/reactivate", TRUE, requireAdmin,
          audited("UPDATE", "users"), 200, {400, 404}),
    route("GET", "users", "/stats/overview", TRUE, requireAdmin, NoAudit, 200, {}) }

\* upload.single('file') of POST /upload answers 413 through errorHandler
FileRoutes ==
  { route("POST", "files", "/upload", FALSE, {},
          audited("CREATE", "stored_files"), 201, {400, 413}),
    route("DELETE", "files", "/:id", FALSE, {},
          audited("DELETE", "stored_files"), 200, {404}) }

AnalyticsRoutes ==
  { route("GET", "analytics", "/attendance", TRUE, requireBeadleOrAbove, NoAudit, 200, {400}),
    route("GET", "analytics", "/sections", TRUE, requireBeadleOrAbove, NoAudit, 200, {}),
    route("GET", "analytics", "/top-absent", TRUE, requireBeadleOrAbove, NoAudit, 200, {}),
    route("GET", "analytics", "/trends", TRUE, requireBeadleOrAbove, NoAudit, 200, {}) }

Routes ==
  AttendanceRoutes \cup SectionRoutes \cup UserRoutes \cup FileRoutes
  \cup AnalyticsRoutes

TableNames == {"attendance_records", "sections", "users", "stored_files"}

\* the :id of the two activation routes; 5 has no row
TargetIds == 1..5

NoRequest ==
  [pc |-> "idle", route |-> route("none", "none", "none", FALSE, {}, NoAudit, 0, {}),
   token |-> [kind |-> "none", userId |-> 0], id |-> 0, user |-> NoUser,
   status |-> 0, code |-> "none", ran |-> FALSE]

isActivation(r) == r.path \in {"/:id/deactivate", "/:id/reactivate"}

\* a request reaches a route
Arrive ==
  /\ req = NoRequest
  /\ served < MaxRequests
  /\ \E r \in Routes, token \in Tokens, id \in TargetIds :
       /\ ~isActivation(r) => id = 1
       /\ req' = [NoRequest EXCEPT !.pc = "authenticateToken", !.route = r,
                                       !.token = token, !.id = id]
  /\ served' = served + 1
  /\ UNCHANGED <<users, tables, pendingAudit, auditLogs, responses>>
  /\ UNCHANGED <<coreVars, submission, call, uploadVars, extVars>>

\* authenticateToken
AuthenticateToken ==
  /\ req.pc = "authenticateToken"
  /\ \E lookup \in Lookups :
       LET auth == authenticateToken(req.token, lookup)
       IN  req' =
             IF auth.status # 0
               THEN [req EXCEPT !.pc = "sent", !.status = auth.status,
                                    !.code = auth.code]
             ELSE [req EXCEPT !.user = auth.user,
                                  !.pc = IF req.route.guarded THEN "requireRole"
                                         ELSE "handler"]
  /\ UNCHANGED <<users, tables, pendingAudit, auditLogs, responses, served>>
  /\ UNCHANGED <<coreVars, submission, call, uploadVars, extVars>>

\* requireRole(allowedRoles)
RequireRole ==
  /\ req.pc = "requireRole"
  /\ LET guard == requireRole(req.route.allowed, req.user)
     IN  req' =
           IF guard.status # 0
             THEN [req EXCEPT !.pc = "sent", !.status = guard.status,
                                  !.code = guard.code]
           ELSE [req EXCEPT !.pc = "handler"]
  /\ UNCHANGED <<users, tables, pendingAudit, auditLogs, responses, served>>
  /\ UNCHANGED <<coreVars, submission, call, uploadVars, extVars>>

\* the res.send that auditMiddleware installs: a 2xx answer of an
\* authenticated request calls logAuditEvent, which is not awaited
auditMiddleware(r, status, user) ==
  IF r.audit # NoAudit /\ status >= 200 /\ status < 300 /\ user # NoUser
    THEN <<[userId |-> user.id, action |-> r.audit.action,
            tableName |-> r.audit.tableName]>>
  ELSE <<>>

\* PUT /users/:id/deactivate and /reactivate
activation(r, id) ==
  LET isActive == (r.path = "/:id/reactivate")
  IN  IF id \notin UserIds THEN [status |-> 404, code |-> "USER_NOT_FOUND"]
      ELSE IF users[id].isActive = isActive
        THEN [status |-> 400,
              code |-> IF isActive THEN "USER_ALREADY_ACTIVE"
                       ELSE "USER_ALREADY_DEACTIVATED"]
      ELSE [status |-> 200, code |-> "ok"]

\* the handler of the route runs and answers
Handler ==
  /\ req.pc = "handler"
  /\ LET r == req.route
     IN  \E status \in {r.ok} \cup r.rejects \cup {500} :
           /\ isActivation(r) /\ status # 500 =>
                status = activation(r, req.id).status
           /\ req' = [req EXCEPT !.pc = "sent", !.status = status,
                                         !.code = IF status = 500 THEN "INTERNAL_ERROR"
                                                  ELSE "handler",
                                         !.ran = TRUE]
           /\ users' =
                IF isActivation(r) /\ status = r.ok
                  THEN [users EXCEPT ![req.id].isActive = (r.path = "/:id/reactivate")]
                ELSE users
           /\ tables' =
                IF r.method # "GET" /\ status = r.ok
                  THEN [tables EXCEPT ![r.audit.tableName] = @ + 1]
                ELSE tables
           /\ pendingAudit' = pendingAudit \o auditMiddleware(r, status, req.user)
  /\ UNCHANGED <<auditLogs, responses, served>>
  /\ UNCHANGED <<coreVars, submission, call, uploadVars, extVars>>

\* the response leaves the server
Finish ==
  /\ req.pc = "sent"
  /\ responses' = Append(responses, [route |-> req.route, user |-> req.user,
                                     status |-> req.status])
  /\ req' = NoRequest
  /\ UNCHANGED <<users, tables, pendingAudit, auditLogs, served>>
  /\ UNCHANGED <<coreVars, submission, call, uploadVars, extVars>>

\* logAuditEvent: prisma.auditLog.create; a failure is logged to the console
\* and dropped
LogAuditEvent ==
  /\ pendingAudit # <<>>
  /\ \E create \in {"creates", "throws"} :
       auditLogs' = IF create = "creates" THEN Append(auditLogs, Head(pendingAudit))
                    ELSE auditLogs
  /\ pendingAudit' = Tail(pendingAudit)
  /\ UNCHANGED <<users, tables, req, responses, served>>
  /\ UNCHANGED <<coreVars, submission, call, uploadVars, extVars>>

(***************************************************************************)
(* The integration service (PODAIIntegrationService) and its external      *)
(* collaborators: MinIO (object storage), Qdrant (vector database), Ollama *)
(* (local LLM), N8n (workflow automation), Metabase (BI tool) and the      *)
(* Telegram bot.                                                           *)
(***************************************************************************)
Collaborators == {"minio", "qdrant", "ollama", "n8n", "metabase", "telegram"}

\* today's summaries Metabase can answer with: the overall rate and the rate
\* of each section
AttendanceData ==
  { [attendanceRate |-> r, sectionBreakdown |-> b] :
      r \in {79, 80}, b \in {<<>>, <<69>>, <<70, 69>>} }

NoInsight ==
  [summary |-> "none", recommendations |-> <<>>, patterns |-> <<>>, alerts |-> <<>>]

\* a mutation of initialize that treats Ollama as MinIO is treated
initializeStrict(up) ==
  IF "qdrant" \notin up
    THEN [settled |-> "rejected", isInitialized |-> isInitialized, warned |-> {}]
  ELSE IF "minio" \notin up \/ "ollama" \notin up
    THEN [settled |-> "rejected", isInitialized |-> isInitialized, warned |-> {}]
  ELSE [settled |-> "resolved", isInitialized |-> TRUE,
        warned |-> {"n8n", "metabase"} \ up]

\* initialize: qdrantService.initializeCollection throws when the collection
\* can be neither found nor created, an unhealthy MinIO throws, an unhealthy
\* Ollama, N8n or Metabase is a console.warn; the catch block rethrows
initialize(up) ==
  IF "qdrant" \notin up
    THEN [settled |-> "rejected", isInitialized |-> isInitialized, warned |-> {}]
  ELSE IF "minio" \notin up
    THEN [settled |-> "rejected", isInitialized |-> isInitialized, warned |-> {}]
  ELSE [settled |-> "resolved", isInitialized |-> TRUE,
        warned |-> {"ollama", "n8n", "metabase"} \ up]

\* generateAlerts
RECURSIVE sectionAlerts(_)
sectionAlerts(breakdown) ==
  IF breakdown = <<>> THEN <<>>
  ELSE (IF breakdown[1] < 70 THEN <<"critically low">> ELSE <<>>)
       \o sectionAlerts(Tail(breakdown))

generateAlerts(attendanceData) ==
  (IF attendanceData.attendanceRate < 80 THEN <<"below 80%">> ELSE <<>>)
  \o sectionAlerts(attendanceData.sectionBreakdown)

\* generateAttendanceInsights: Metabase, Ollama and Qdrant are awaited inside
\* one try block, whose catch returns the fallback insight
generateAttendanceInsights(up, attendanceData) ==
  IF {"metabase", "ollama", "qdrant"} \subseteq up
    THEN [summary |-> "aiResponse", recommendations |-> <<"recommendations">>,
          patterns |-> <<"similarPatterns">>, alerts |-> generateAlerts(attendanceData)]
  ELSE [summary |-> "Unable to generate insights at this time",
        recommendations |-> <<>>, patterns |-> <<>>, alerts |-> <<>>]

\* a collaborator goes down or comes back
Outage ==
  /\ \E c \in Collaborators :
       available' = IF c \in available THEN available \ {c} ELSE available \cup {c}
  /\ UNCHANGED <<isInitialized, initializeSettled, warned, insight>>
  /\ UNCHANGED besidesIntegration

Initialize ==
  /\ LET done == initialize(available)
     IN  /\ initializeSettled' = done.settled
         /\ isInitialized' = done.isInitialized
         /\ warned' = done.warned
  /\ UNCHANGED <<available, insight>>
  /\ UNCHANGED besidesIntegration

GenerateAttendanceInsights ==
  /\ \E attendanceData \in AttendanceData :
       insight' = generateAttendanceInsights(available, attendanceData)
  /\ UNCHANGED <<available, isInitialized, initializeSettled, warned>>
  /\ UNCHANGED besidesIntegration

(***************************************************************************)
(* Sections and their students: DELETE /sections/:id of the backend and    *)
(* the roster import of the UI (CSVUpload), which inserts students.  The   *)
(* foreign keys of students and attendance_records to sections are         *)
(* ON DELETE CASCADE.                                                      *)
(***************************************************************************)
\* the section rows at the start: the sections of the roster and section 3,
\* which has no students
SectionIds == Sections \cup {3}

\* the rows of the roster import
ImportedStudents == {4, 5}

NoDeletion == [pc |-> "idle", id |-> 0, status |-> 0, code |-> "none"]

\* _count: { students, attendanceRecords } of a section
studentsCount(id) == Cardinality({s \in studentTable : s.sectionId = id})

attendanceRecordsCount(id) ==
  Cardinality({i \in DOMAIN records : records[i].sectionId = id})

\* DELETE /sections/:id up to its check of the counts
SectionDeleteCheck(c) ==
  /\ deletion[c].pc = "idle"
  /\ \E id \in SectionIds :
       deletion' = [deletion EXCEPT ![c] =
         IF id \notin sectionTable
           THEN [pc |-> "done", id |-> id, status |-> 404, code |-> "SECTION_NOT_FOUND"]
         ELSE IF studentsCount(id) > 0 \/ attendanceRecordsCount(id) > 0
           THEN [pc |-> "done", id |-> id, status |-> 409, code |-> "SECTION_HAS_DATA"]
         ELSE [pc |-> "checked", id |-> id, status |-> 0, code |-> "none"]]
  /\ UNCHANGED <<sectionTable, studentTable>>
  /\ UNCHANGED besidesSections

\* prisma.section.delete and the response; the delete of a row that is gone
\* is errorHandler's 404, the delete of a row cascades to its students and
\* attendance records
SectionDelete(c) ==
  /\ deletion[c].pc = "checked"
  /\ LET id == deletion[c].id
         kept(r) == r.sectionId # id
     IN  IF id \notin sectionTable
           THEN /\ deletion' = [deletion EXCEPT ![c].pc = "done", ![c].status = 404,
                                                ![c].code = "NOT_FOUND"]
                /\ UNCHANGED <<sectionTable, studentTable, records>>
           ELSE /\ sectionTable' = sectionTable \ {id}
                /\ studentTable' = {s \in studentTable : s.sectionId # id}
                /\ records' = SelectSeq(records, kept)
                /\ deletion' = [deletion EXCEPT ![c].pc = "done", ![c].status = 200,
                                                ![c].code = "deleted"]
  /\ UNCHANGED <<res, attendanceStats, studentAttendance, analyticsIsLoading>>
  /\ UNCHANGED <<submission, call, uploadVars, routeVars, integrationVars, fileVars,
                 statsVars, chatVars>>

\* the caller has read the response
SectionDeleteReturn(c) ==
  /\ deletion[c].pc = "done"
  /\ deletion' = [deletion EXCEPT ![c] = NoDeletion]
  /\ UNCHANGED <<sectionTable, studentTable>>
  /\ UNCHANGED besidesSections

\* CSVUpload: one row of the file is inserted into students; the insert fails
\* when the student exists or the section row is gone
ImportStudent ==
  /\ \E id \in ImportedStudents, selectedSection \in SectionIds :
       studentTable' =
         IF selectedSection \in sectionTable /\ ~(\E s \in studentTable : s.id = id)
           THEN studentTable \cup {[id |-> id, sectionId |-> selectedSection]}
         ELSE studentTable
  /\ UNCHANGED <<sectionTable, deletion>>
  /\ UNCHANGED besidesSections

(***************************************************************************)
(* Reading and deleting stored files: GET /files, GET /files/:id,          *)
(* GET /files/:id/download and DELETE /files/:id.  req.user is the user    *)
(* that authenticateToken found.                                           *)
(***************************************************************************)
\* the callers: the two uploaders and the admin
FileUsers == {1, 3, 4}

FileIds == 1..MaxFiles

NoFileRes == [op |-> "none", user |-> 0, id |-> 0, status |-> 0, files |-> <<>>]

\* a mutation of the where clause that leaves out uploadedBy
filesWhereAnyone(user, ids) ==
  LET match(f) == f.id \in ids
  IN  SelectSeq(storedFiles, match)

\* findMany / findFirst with the where clause of the files routes: the id,
\* if any, and uploadedBy = req.user.id unless the role is admin
filesWhere(user, ids) ==
  LET match(f) == /\ f.id \in ids
                  /\ users[user].role # "admin" => f.uploadedBy = user
  IN  SelectSeq(storedFiles, match)

\* what errorHandler answers when a database call of the handler rejects
fileError(op, user, id) ==
  [op |-> op, user |-> user, id |-> id, status |-> 500, files |-> <<>>]

\* GET /files
FilesList ==
  /\ \E user \in FileUsers, db \in Lookups :
       fileRes' = IF db = "throws" THEN fileError("list", user, 0)
                  ELSE [op |-> "list", user |-> user, id |-> 0, status |-> 200,
                        files |-> filesWhere(user, FileIds)]
  /\ UNCHANGED <<uploadVars, besidesFiles>>

\* GET /files/:id and GET /files/:id/download (302 to file.url)
FilesGet ==
  /\ \E user \in FileUsers, id \in FileIds, op \in {"get", "download"}, db \in Lookups :
       LET found == filesWhere(user, {id})
       IN  fileRes' =
             IF db = "throws" THEN fileError(op, user, id)
             ELSE IF found = <<>>
               THEN [op |-> op, user |-> user, id |-> id, status |-> 404, files |-> <<>>]
             ELSE [op |-> op, user |-> user, id |-> id,
                   status |-> IF op = "get" THEN 200 ELSE 302, files |-> <<found[1]>>]
  /\ UNCHANGED <<uploadVars, besidesFiles>>

\* DELETE /files/:id: the row is deleted whether or not S3 deleted the object
FilesDelete ==
  /\ \E user \in FileUsers, id \in FileIds, db \in Lookups :
       LET found == filesWhere(user, {id})
           kept(f) == f.id # id
       IN  IF db = "throws"
             THEN /\ fileRes' = fileError("delete", user, id)
                  /\ UNCHANGED storedFiles
           ELSE IF found = <<>>
             THEN /\ fileRes' = [op |-> "delete", user |-> user, id |-> id,
                                 status |-> 404, files |-> <<>>]
                  /\ UNCHANGED storedFiles
             ELSE /\ storedFiles' = SelectSeq(storedFiles, kept)
                  /\ fileRes' = [op |-> "delete", user |-> user, id |-> id,
                                 status |-> 200, files |-> <<>>]
  /\ UNCHANGED <<uploadRes, bucket, file, proofToast, besidesFiles>>

(***************************************************************************)
(* Statistics requests, GET /attendance/stats and getAttendanceStats of    *)
(* the insight handler, beside requests that write attendance records.     *)
(* The counts of Promise.all are separate queries on the table.            *)
(***************************************************************************)
NoStats ==
  [pc |-> "idle", endpoint |-> "none", user |-> 0, pending |-> {},
   totalRecords |-> 0, presentRecords |-> 0, absentRecords |-> 0,
   attendanceRate |-> Num(0)]

\* the count queries of the two endpoints
countQueries(endpoint) ==
  IF endpoint = "stats" THEN {"total", "present", "absent"} ELSE {"total", "present"}

\* the handler up to Promise.all: the where clause is built and the counts
\* are sent
StatsRequest ==
  /\ statsCall.pc \in {"idle", "done"}
  /\ \E user \in Users, endpoint \in {"stats", "ai"} :
       statsCall' = [NoStats EXCEPT !.pc = "counting", !.endpoint = endpoint,
                                    !.user = user, !.pending = countQueries(endpoint)]
  /\ UNCHANGED <<coreVars, besidesStats>>

\* prisma.attendanceRecord.count: one of the pending counts reads the table
StatsCount ==
  /\ statsCall.pc = "counting"
  /\ \E q \in statsCall.pending :
       LET rows == roleFilter(records, statsCall.user)
       IN  statsCall' =
             [statsCall EXCEPT
                !.pending = @ \ {q},
                !.totalRecords = IF q = "total" THEN Len(rows) ELSE @,
                !.presentRecords = IF q = "present" THEN countWhere(rows, "present") ELSE @,
                !.absentRecords = IF q = "absent" THEN countWhere(rows, "absent") ELSE @]
  /\ UNCHANGED <<coreVars, besidesStats>>

\* the response, after every count has answered: /stats rounds the rate,
\* getAttendanceStats subtracts for the absences
StatsRespond ==
  /\ statsCall.pc = "counting"
  /\ statsCall.pending = {}
  /\ LET rate == attendanceRate(statsCall.presentRecords, statsCall.totalRecords)
     IN  statsCall' =
           IF statsCall.endpoint = "stats"
             THEN [statsCall EXCEPT !.pc = "done",
                                    !.attendanceRate = roundHundredths(rate)]
           ELSE [statsCall EXCEPT !.pc = "done",
                                  !.absentRecords = statsCall.totalRecords
                                                    - statsCall.presentRecords,
                                  !.attendanceRate = rate]
  /\ UNCHANGED <<coreVars, besidesStats>>

\* PUT /attendance/:id with a status: the record is updated
AttendanceUpdate ==
  /\ \E id \in DOMAIN records, status \in {"present", "absent"} :
       records' = [records EXCEPT ![id].status = status]
  /\ UNCHANGED <<res, attendanceStats, studentAttendance, analyticsIsLoading,
                 statsCall, besidesStats>>

\* DELETE /attendance/:id: the record is deleted
AttendanceDelete ==
  /\ \E id \in DOMAIN records :
       records' = [i \in 1..(Len(records) - 1) |->
                     IF i < id THEN records[i] ELSE records[i + 1]]
  /\ UNCHANGED <<res, attendanceStats, studentAttendance, analyticsIsLoading,
                 statsCall, besidesStats>>

(***************************************************************************)
(* The assistant chat: the transcript, the input box and handleSend.       *)
(***************************************************************************)
\* what the user types: nothing, blanks, and two questions
ChatInputs == { <<>>, <<" ", " ">>, Q_hello, Q_whatsRate }

\* String.prototype.trim: the text without leading and trailing blanks
RECURSIVE trim(_)
trim(text) ==
  IF text = <<>> THEN <<>>
  ELSE IF Head(text) = " " THEN trim(Tail(text))
  ELSE IF text[Len(text)] = " " THEN trim(SubSeq(text, 1, Len(text) - 1))
  ELSE text

\* a text of the transcript that is not an insight: the greeting, the user's
\* input, the empty content of the placeholder, the apology of the catch block
chatText(op, text) == [NoResult EXCEPT !.op = op, !.query = text]

Message(role, content, loading) ==
  [role |-> role, content |-> content, isLoading |-> loading]

Greeting == Message("assistant", chatText("greeting", <<>>), FALSE)

\* no handleSend is waiting for getAttendanceInsights
NoSend == [waiting |-> FALSE, input |-> <<>>]

\* how the await of getAttendanceInsights ends
InsightOutcomes == FetchOutcomes \cup {"throws"}

\* a mutation of the update that appends without removing the placeholder
withReplyAppended(prev, reply) == prev \o <<reply>>

\* the updater of both branches: prev without loading messages, then the reply
withReply(prev, reply) ==
  LET shown(m) == ~m.isLoading
  IN  SelectSeq(prev, shown) \o <<reply>>

\* onChange of the textarea
SetInput ==
  /\ \E text \in ChatInputs : input' = text
  /\ UNCHANGED <<messages, isLoading, sending, coreVars, besidesChat>>

\* handleSend up to its await: nothing for a blank input or while loading,
\* else the user's message and the placeholder are appended
HandleSend ==
  /\ Len(messages) < 1 + 2 * MaxSends
  /\ IF trim(input) = <<>> \/ isLoading
       THEN UNCHANGED <<messages, isLoading, sending>>
       ELSE /\ messages' = messages \o << Message("user", chatText("input", input), FALSE),
                                          Message("assistant", chatText("none", <<>>), TRUE) >>
            /\ isLoading' = TRUE
            /\ sending' = [waiting |-> TRUE, input |-> input]
  /\ UNCHANGED <<input, coreVars, besidesChat>>

\* handleSend after its await: the reply of the try or of the catch branch
\* replaces the placeholder, then finally and setInput("")
HandleSendSettle ==
  /\ sending.waiting
  /\ \E outcome \in InsightOutcomes, locale \in Locales :
       LET aiResponse ==
             IF outcome = "throws" THEN chatText("error", <<>>)
             ELSE IF outcome = "fails" THEN insightsNoData(sending.input)
             ELSE getAttendanceInsights(sending.input, locale)
       IN  messages' = withReply(messages, Message("assistant", aiResponse, FALSE))
  /\ isLoading' = FALSE
  /\ input' = <<>>
  /\ sending' = NoSend
  /\ UNCHANGED <<coreVars, besidesChat>>

(***************************************************************************)
(* The state machine.                                                      *)
(***************************************************************************)
\* query strings of GET /analytics/attendance: sectionId, startDate, endDate
\* (0: not given) and groupBy
AnalyticsParams ==
  { <<0, 0, 0, "day">>, <<0, 0, 0, "week">>, <<0, 0, 0, "month">>,
    <<1, 0, 0, "day">>, <<0, 7, 0, "week">>, <<0, 0, 6, "day">> }

\* limit parameters of GET /analytics/top-absent
LimitInputs ==
  { [kind |-> "absent", value |-> 0], [kind |-> "text", value |-> 0] }
  \cup { [kind |-> "number", value |-> n] : n \in -1..2 }

InitPage ==
  /\ res = NoResult
  /\ attendanceStats = <<>>
  /\ studentAttendance = <<>>
  /\ analyticsIsLoading = TRUE
  /\ submission = [c \in Clients |-> Idle]
  /\ call = [c \in Callers |-> NoCall]
  /\ storedFiles = <<>>
  /\ uploadRes = NoUpload
  /\ bucket = <<>>
  /\ file = NoFile
  /\ proofToast = ""
  /\ users = [u \in UserIds |-> [role |-> Roles[u], isActive |-> TRUE]]
  /\ tables = [t \in TableNames |-> 0]
  /\ req = NoRequest
  /\ pendingAudit = <<>>
  /\ auditLogs = <<>>
  /\ responses = <<>>
  /\ served = 0
  /\ available = Collaborators
  /\ isInitialized = FALSE
  /\ initializeSettled = "none"
  /\ warned = {}
  /\ insight = NoInsight
  /\ sectionTable = SectionIds
  /\ studentTable = {[id |-> s, sectionId |-> sectionOf(s)] : s \in Students}
  /\ deletion = [c \in Clients |-> NoDeletion]
  /\ fileRes = NoFileRes
  /\ statsCall = NoStats
  /\ messages = <<Greeting>>
  /\ input = <<>>
  /\ isLoading = FALSE
  /\ sending = NoSend

Init == records \in SmallInitialStores /\ InitPage

InitDaily == records \in DailyInitialStores /\ InitPage

AiQuery ==
  \E user \in Users, query \in Queries :
    /\ res.op = "none"
    /\ res' = aiQuery(user, query)
    /\ UNCHANGED <<records, attendanceStats, studentAttendance, analyticsIsLoading,
                   serviceVars>>

GetAttendanceInsights ==
  \E query \in Queries, locale \in Locales :
    /\ res.op = "none"
    /\ res' = getAttendanceInsights(query, locale)
    /\ UNCHANGED <<records, attendanceStats, studentAttendance, analyticsIsLoading,
                   serviceVars>>

AnalyticsAttendance ==
  \E user \in Users, p \in AnalyticsParams :
    /\ res.op = "none"
    /\ res' = analyticsAttendance(user, p[1], p[2], p[3], p[4])
    /\ UNCHANGED <<records, attendanceStats, studentAttendance, analyticsIsLoading,
                   serviceVars>>

TopAbsent ==
  \E user \in Users, limit \in LimitInputs, startDate \in {0, 7} :
    /\ res.op = "none"
    /\ res' = topAbsent(user, limit, startDate, 0)
    /\ UNCHANGED <<records, attendanceStats, studentAttendance, analyticsIsLoading,
                   serviceVars>>

AnalyticsSections ==
  \E user \in Users :
    /\ res.op = "none"
    /\ res' = analyticsSections(user)
    /\ UNCHANGED <<records, attendanceStats, studentAttendance, analyticsIsLoading,
                   serviceVars>>

AnalyticsTrends ==
  \E user \in Users, days \in {30, 9} :
    /\ res.op = "none"
    /\ res' = analyticsTrends(user, days)
    /\ UNCHANGED <<records, attendanceStats, studentAttendance, analyticsIsLoading,
                   serviceVars>>

\* Analytics.fetchAttendanceData, from setIsLoading(true) to the finally block
FetchAttendanceData ==
  \E selectedSection \in Sections, dateRange \in {7, 30, 90} :
    /\ res.op = "none"
    /\ attendanceStats' = processedStats(selectedSection, dateRange)
    /\ studentAttendance' = processedStudents(selectedSection, 1)
    /\ analyticsIsLoading' = FALSE
    /\ UNCHANGED <<records, res, serviceVars>>

\* a render of the Analytics page once loading is over: the summary list is
\* studentAttendance.sort(...).map(...), and sort works in place
RenderAnalytics ==
  /\ res.op = "none"
  /\ ~analyticsIsLoading
  /\ studentAttendance' = sort(studentAttendance, "attendance_rateDesc")
  /\ res' = [NoResult EXCEPT
               !.op = "Analytics.render",
               !.totalRecords = getOverallStats.totalDays,
               !.presentRecords = getOverallStats.totalPresent,
               !.absentRecords = getOverallStats.totalAbsent,
               !.attendanceRate = getOverallStats.overallRate,
               !.groupBy = "day",
               !.groups = attendanceStats,
               !.ranking = sort(studentAttendance, "attendance_rateDesc"),
               !.recentAverage = getAttendanceTrend,
               !.trendDirection = IF gt(getAttendanceTrend, Num(0))
                                    THEN "TrendingUp" ELSE "TrendingDown"]
  /\ UNCHANGED <<records, attendanceStats, analyticsIsLoading, serviceVars>>

\* the caller has read the answer; callers wait for one answer before they
\* ask again
Return ==
  /\ res.op # "none"
  /\ res' = NoResult
  /\ UNCHANGED <<records, attendanceStats, studentAttendance, analyticsIsLoading,
                 serviceVars>>

Next ==
  \/ AiQuery
  \/ GetAttendanceInsights
  \/ AnalyticsAttendance
  \/ TopAbsent
  \/ AnalyticsTrends
  \/ FetchAttendanceData
  \/ RenderAnalytics
  \/ Return

Spec == Init /\ [][Next]_vars

InitAbsence == records \in AbsenceInitialStores /\ InitPage

\* the handlers that rank absentees, for the stores of absent records
NextAbsence ==
  \/ AiQuery
  \/ GetAttendanceInsights
  \/ TopAbsent
  \/ Return

SpecAbsence == InitAbsence /\ [][NextAbsence]_vars

InitSubmit == records = <<>> /\ InitPage

\* submissions of two clients, interleaved at their requests to the database
NextSubmit ==
  \E c \in Clients :
    \/ MarkCheck(c)
    \/ MarkCreate(c)
    \/ SubmitDelete(c)
    \/ SubmitInsert(c)
    \/ Acknowledge(c)

SpecSubmit == InitSubmit /\ [][NextSubmit]_vars

\* stores of at most one record
InitCallers ==
  /\ records \in {w \in DailyInitialStores : Len(w) <= 1}
  /\ InitPage

\* insight queries of two callers, interleaved
NextCallers ==
  \E c \in Callers :
    \/ AskBackend(c)
    \/ AskAssistant(c)
    \/ Answer(c)
    \/ Receive(c)

SpecCallers == InitCallers /\ [][NextCallers]_vars

InitUpload == records = <<>> /\ InitPage

\* uploads through the backend and through the proof-upload modal
NextUpload ==
  \/ FilesUpload
  \/ HandleFileSelect
  \/ HandleUpload

SpecUpload == InitUpload /\ [][NextUpload]_vars

InitRoutes == records = <<>> /\ InitPage

\* requests to the guarded routes, one at a time, and the audit writes
NextRoutes ==
  \/ Arrive
  \/ AuthenticateToken
  \/ RequireRole
  \/ Handler
  \/ Finish
  \/ LogAuditEvent

SpecRoutes == InitRoutes /\ [][NextRoutes]_vars

InitIntegration == records = <<>> /\ InitPage

\* the integration service while collaborators go down and come back
NextIntegration ==
  \/ Outage
  \/ Initialize
  \/ GenerateAttendanceInsights

SpecIntegration == InitIntegration /\ [][NextIntegration]_vars

InitFiles == records = <<>> /\ InitPage

\* uploads, and the requests that read and delete stored files
NextFiles ==
  \/ FilesUpload
  \/ FilesList
  \/ FilesGet
  \/ FilesDelete

SpecFiles == InitFiles /\ [][NextFiles]_vars

InitStats == records = <<>> /\ InitPage

\* a statistics request beside the requests that create, update and delete
\* attendance records
NextStats ==
  \/ StatsRequest
  \/ StatsCount
  \/ StatsRespond
  \/ AttendanceUpdate
  \/ AttendanceDelete
  \/ MarkCheck(1)
  \/ MarkCreate(1)
  \/ Acknowledge(1)

SpecStats == InitStats /\ [][NextStats]_vars

\* the chat over an empty table and over tables of one record
InitChat ==
  /\ records \in {w \in DailyInitialStores : Len(w) <= 1}
  /\ InitPage

\* one assistant chat
NextChat ==
  \/ SetInput
  \/ HandleSend
  \/ HandleSendSettle

\* the promise of getAttendanceInsights settles
SpecChat == InitChat /\ [][NextChat]_vars /\ WF_vars(HandleSendSettle)

\* stores of at most two records
InitAnalytics ==
  /\ records \in {w \in SmallInitialStores : Len(w) <= 2}
  /\ InitPage

\* the analytics and AI endpoints of the backend
NextAnalytics ==
  \/ AiQuery
  \/ AnalyticsAttendance
  \/ AnalyticsSections
  \/ TopAbsent
  \/ AnalyticsTrends
  \/ Return

SpecAnalytics == InitAnalytics /\ [][NextAnalytics]_vars

\* stores of at most one record
InitSections ==
  /\ records \in {w \in DailyInitialStores : Len(w) <= 1}
  /\ InitPage

\* section deletions of two callers, interleaved with the roster import
NextSections ==
  \/ \E c \in Clients :
       \/ SectionDeleteCheck(c)
       \/ SectionDelete(c)
       \/ SectionDeleteReturn(c)
  \/ ImportStudent

SpecSections == InitSections /\ [][NextSections]_vars

\* the insight handlers alone, for the stores of daily records
NextDaily ==
  \/ AiQuery
  \/ GetAttendanceInsights
  \/ AnalyticsTrends
  \/ Return

SpecDaily == InitDaily /\ [][NextDaily]_vars

(***************************************************************************)
(* Properties.                                                             *)
(***************************************************************************)
\* an answer of one of the two query routers that went through the routing
Routed ==
  res.op \in {"ai/query", "getAttendanceInsights"} /\ res.message # "no_data"

\* C1: a query whose lower-cased text contains both "rate" and "trend" is
\* routed to intent rate, never trend, by the backend /ai/query router and by
\* the UI-side assistant.
C1_RateBeforeTrend ==
  ( /\ Routed
    /\ includes(toLowerCase(res.query), KW_rate)
    /\ includes(toLowerCase(res.query), KW_trend) )
  => res.intent = "rate"

\* the intent the routing order of the specification selects
C2_FirstMatch(query) ==
  LET q == toLowerCase(query)
  IN  IF includes(q, KW_rate) \/ includes(q, KW_percentage) THEN "rate"
      ELSE IF includes(q, KW_absent) \/ includes(q, KW_missing) THEN "absence"
      ELSE IF includes(q, KW_trend) \/ includes(q, KW_pattern) THEN "trend"
      ELSE IF includes(q, KW_student) /\ includes(q, KW_performance)
        THEN "student_performance"
      ELSE "default"

\* C2: the router selects the intent of the first matching rule in the order
\* rate/percentage, absent/missing, trend/pattern, student and performance,
\* default.
C2_FirstMatchingRule == Routed => res.intent = C2_FirstMatch(res.query)

C3_GroupOK(present, absent, total, rate) ==
  /\ present + absent = total
  /\ ge(rate, Num(0))
  /\ ge(Num(100), rate)
  /\ numEq(rate, [num |-> present * 100, den |-> total])

\* C3: over a non-empty record window every group of the Aggregator (overall,
\* per day, per week, per student) has presentCount + absentCount =
\* totalCount and an attendanceRate = presentCount / totalCount * 100 that
\* lies in 0..100.
C3_AggregateCounts ==
  /\ ( /\ \/ res.op \in {"analytics/attendance", "getAttendanceInsights", "Analytics.render"}
           \/ (res.op = "ai/query" /\ res.intent = "rate")
        /\ res.totalRecords > 0 )
     => C3_GroupOK(res.presentRecords, res.absentRecords, res.totalRecords,
                   res.attendanceRate)
  /\ res.op \in {"analytics/attendance", "analytics/trends"}
     => \A i \in DOMAIN res.groups :
          C3_GroupOK(res.groups[i].present, res.groups[i].absent,
                     res.groups[i].total, res.groups[i].attendanceRate)
  /\ res.op = "analytics/attendance"
     => \A i \in DOMAIN res.ranking :
          C3_GroupOK(res.ranking[i].present, res.ranking[i].absent,
                     res.ranking[i].total, res.ranking[i].attendanceRate)
  /\ \A i \in DOMAIN attendanceStats :
       C3_GroupOK(attendanceStats[i].present, attendanceStats[i].absent,
                  attendanceStats[i].total, attendanceStats[i].attendanceRate)
  /\ \A i \in DOMAIN studentAttendance :
       C3_GroupOK(studentAttendance[i].present_days, studentAttendance[i].absent_days,
                  studentAttendance[i].total_days, studentAttendance[i].attendance_rate)

\* /analytics/attendance has answered with two weeks, one of them with present
\* and absent records, and with two students
C3_Witness ==
  /\ res.op = "analytics/attendance"
  /\ res.groupBy = "week"
  /\ Len(res.groups) = 2
  /\ \E i \in DOMAIN res.groups : res.groups[i].present >= 1 /\ res.groups[i].absent >= 1
  /\ Len(res.ranking) >= 2

\* C4: for an empty record window and every query intent the attendance rate
\* is 0 and the message says that no data is available.
C4_EmptyWindowNoData ==
  ( /\ res.op \in {"ai/query", "getAttendanceInsights"}
    /\ res.intent # "default"
    /\ records = <<>> )
  => (numEq(res.attendanceRate, Num(0)) /\ res.message = "no_data")

\* the direction of the two-window comparison of means over per-period rates
C5_Direction(periods) ==
  LET recentMean == average(sliceFrom(periods, -7))
      priorMean  == average(slice(periods, -14, -7))
  IN  IF gt(recentMean, priorMean) THEN "improving"
      ELSE IF lt(recentMean, priorMean) THEN "declining"
      ELSE "stable"

\* the per-day rates of the records the assistant fetched, oldest first
C5_AssistantPeriods ==
  sort(withRate(reduceStats(fetchRecent, "day", <<>>)), "dateAsc")

\* C5: with a non-empty recent window (last 7 periods) and a non-empty prior
\* window (the 7 periods before), the direction is improving iff
\* mean(recent) > mean(prior), declining iff mean(recent) < mean(prior) and
\* stable iff the means are equal.
C5_TrendByWindowMeans ==
  /\ (res.op = "analytics/trends" /\ Len(res.groups) > 7)
     => res.trendDirection = C5_Direction(res.groups)
  /\ ( /\ res.op = "getAttendanceInsights"
       /\ res.intent = "trend"
       /\ Len(C5_AssistantPeriods) > 7 )
     => res.trendDirection = C5_Direction(C5_AssistantPeriods)

\* C6: when the recent or the prior window of the Trend Analyzer holds no data
\* point the reported direction is stable.
C6_StableWhenWindowEmpty ==
  /\ (res.op = "ai/query" /\ res.intent = "trend" /\ Len(res.groups) < 2)
     => res.trendDirection = "stable"
  /\ (res.op = "analytics/trends" /\ Len(res.groups) < 8)
     => res.trendDirection = "stable"
  /\ (res.op = "Analytics.render" /\ Len(res.groups) < 8)
     => numEq(res.recentAverage, Num(0))

C7_AbsenceNonIncreasing(ranking) ==
  \A i, j \in DOMAIN ranking :
    i < j => ranking[i].absenceCount >= ranking[j].absenceCount

C7_RateNonIncreasing(ranking) ==
  \A i, j \in DOMAIN ranking :
    i < j => ge(ranking[i].attendanceRate, ranking[j].attendanceRate)

C7_RateNonDecreasing(ranking) ==
  \A i, j \in DOMAIN ranking :
    i < j => ge(ranking[j].attendanceRate, ranking[i].attendanceRate)

\* C7: for every limit a ranking has at most limit entries (an empty ranking
\* is within every limit) and is ordered by its metric: absence count
\* non-increasing for absentee lists, attendance rate non-increasing for top
\* performers and non-decreasing for the needs-attention list.
C7_RankerBounded ==
  /\ res.op = "analytics/top-absent"
     => /\ (Len(res.ranking) <= res.limit \/ res.ranking = <<>>)
        /\ C7_AbsenceNonIncreasing(res.ranking)
  /\ (res.op = "ai/query" /\ res.intent = "absence")
     => /\ Len(res.ranking) <= res.limit
        /\ C7_AbsenceNonIncreasing(res.ranking)
  /\ (res.op = "ai/query" /\ res.intent = "student_performance")
     => /\ Len(res.ranking) <= res.limit
        /\ C7_RateNonIncreasing(res.ranking)
        /\ Len(res.needsAttention) <= res.limit
        /\ C7_RateNonDecreasing(res.needsAttention)
  /\ res.op = "analytics/attendance"
     => /\ Len(res.ranking) <= res.limit
        /\ C7_RateNonIncreasing(res.ranking)
  /\ (res.op = "getAttendanceInsights" /\ res.intent = "absence")
     => /\ Len(res.ranking) <= res.limit
        /\ \A i, j \in DOMAIN res.ranking :
             i < j => res.ranking[i].count >= res.ranking[j].count

\* the display names of the roster in ascending order
C8_NameOrder == << "Amy Diaz", "Zoe Cruz" >>

C8_nameRank(name) == CHOOSE i \in DOMAIN C8_NameOrder : C8_NameOrder[i] = name

\* C8: ranked entities with equal metric values stand in ascending
\* displayName order.
C8_TiesByName ==
  /\ ( \/ res.op = "analytics/top-absent"
       \/ (res.op = "ai/query" /\ res.intent = "absence") )
     => \A i, j \in DOMAIN res.ranking :
          (i < j /\ res.ranking[i].absenceCount = res.ranking[j].absenceCount)
          => C8_nameRank(res.ranking[i].studentName) <= C8_nameRank(res.ranking[j].studentName)
  /\ (res.op = "getAttendanceInsights" /\ res.intent = "absence")
     => \A i, j \in DOMAIN res.ranking :
          (i < j /\ res.ranking[i].count = res.ranking[j].count)
          => C8_nameRank(res.ranking[i].studentName) <= C8_nameRank(res.ranking[j].studentName)

\* C9: ranking leaves the collection it ranks as it was: a render of the
\* Analytics page does not change studentAttendance, and no handler changes
\* the records.
C9_RankingKeepsInput ==
  [][ /\ records' = records
      /\ res'.op = "Analytics.render" => studentAttendance' = studentAttendance ]_vars

\* C10: the label is "excellent" iff rate >= 90, "good" iff 80 <= rate < 90 and
\* "needs attention" iff rate < 80.
C10_LabelThresholds ==
  res.label # "none"
  => /\ ge(res.attendanceRate, Num(0)) /\ ge(Num(100), res.attendanceRate)
     /\ res.label = "excellent" <=> ge(res.attendanceRate, Num(90))
     /\ res.label = "good"
          <=> (ge(res.attendanceRate, Num(80)) /\ lt(res.attendanceRate, Num(90)))
     /\ res.label = "needs attention" <=> lt(res.attendanceRate, Num(80))

\* an overview of a rate of exactly 90 is labelled "excellent"
C10_Witness ==
  /\ res.op \in {"ai/query", "getAttendanceInsights"}
  /\ res.label = "excellent"
  /\ numEq(res.attendanceRate, Num(90))

\* C11: a rate-intent answer over a non-empty window with p present records
\* out of n states p / n * 100 rounded to one decimal place and the
\* qualitative label of that rate.
C11_RateSummary ==
  (Routed /\ res.intent = "rate" /\ res.totalRecords > 0)
  => LET p == res.presentRecords
         n == res.totalRecords
         t == res.rateText.whole * 10 + res.rateText.tenth
         d == p * 1000 - t * n
         in_label == IF p * 100 >= 90 * n THEN "excellent"
                     ELSE IF p * 100 >= 80 * n THEN "good" ELSE "needs attention"
     IN  /\ res.rateText.whole >= 0
         /\ 2 * d <= n /\ 2 * (0 - d) <= n
         /\ res.label = in_label

\* the absent records of student s in window w
C12_Absences(w, s) ==
  Cardinality({i \in DOMAIN w : w[i].studentId = s /\ w[i].status = "absent"})

\* ranking lists first the student of window w that has strictly more absent
\* records than every other student, if there is one
C12_MostAbsentLeads(w, ranking) ==
  \A s \in Students :
    (\A o \in Students \ {s} : C12_Absences(w, s) > C12_Absences(w, o))
    => /\ ranking # <<>>
       /\ ranking[1].studentName = studentName(s)

\* C12: in the answer to an absence-intent query the student with strictly
\* more absent records than every other student of the window is listed
\* first.
C12_MostAbsentFirst ==
  /\ (res.op = "ai/query" /\ res.intent = "absence")
     => /\ C12_MostAbsentLeads(
             roleFilter(records, CHOOSE u \in Users : u.id = res.user), res.ranking)
        /\ \A s \in Students :
             (\A o \in Students \ {s} :
                C12_Absences(roleFilter(records, CHOOSE u \in Users : u.id = res.user), s)
                  > C12_Absences(roleFilter(records, CHOOSE u \in Users : u.id = res.user), o))
             => res.ranking[1].studentId = s
  /\ (res.op = "getAttendanceInsights" /\ res.intent = "absence")
     => C12_MostAbsentLeads(fetchRecent, res.ranking)

\* C13: a second invocation with the same query over the same records gives
\* the answer of the first, whatever the locale.
C13_Deterministic ==
  /\ res.op = "getAttendanceInsights"
     => \A locale \in Locales : getAttendanceInsights(res.query, locale) = res
  /\ res.op = "ai/query"
     => aiQuery(CHOOSE u \in Users : u.id = res.user, res.query) = res

\* C14: the store holds at most one record per (studentId, date).
C14_OnePerStudentAndDate ==
  \A i, j \in DOMAIN records :
    (records[i].studentId = records[j].studentId /\ records[i].date = records[j].date)
    => i = j

\* one submission has stored its records and another one, with one row per
\* student, has been refused by the unique index
C14_Witness ==
  /\ records # <<>>
  /\ \E c, d \in Clients :
       /\ submission[c].pc = "done" /\ submission[c].code \in {"created", "toast_success"}
       /\ submission[d].pc = "done" /\ submission[d].code \in {"DUPLICATE_ENTRY", "toast_error"}
       /\ \A i, j \in DOMAIN submission[d].payload :
            i # j => submission[d].payload[i].studentId # submission[d].payload[j].studentId

\* C15: a submission for a (section, date) that has stored records succeeds,
\* and at its end the stored records of that (section, date) are the
\* submitted rows.
C15_ResubmitReplaces ==
  [][ \A c \in Clients :
        (submission[c].pc # "done" /\ submission'[c].pc = "done" /\ submission'[c].before # <<>>)
        => /\ submission'[c].code \in {"created", "toast_success"}
           /\ LET match(r) == r.sectionId = submission'[c].sectionId /\ r.date = submission'[c].date
              IN  SelectSeq(records', match) = attendanceRows(submission'[c]) ]_vars

C17_FetchFailureIsNoData ==
  \A c \in Callers :
    (call[c].pc = "answered" /\ call[c].fetch = "fails")
    => call[c].answer.message = "no_data"

\* C18: no file larger than 2MB (2097152 bytes) is ever accepted for upload:
\* whatever the backend stores through POST /files/upload and whatever the
\* proof-upload modal stores in its bucket is at most 2097152 bytes.
C18_NoUploadOverTwoMB ==
  /\ \A i \in DOMAIN storedFiles : storedFiles[i].size <= 2097152
  /\ \A i \in DOMAIN bucket : bucket[i].size <= 2097152

\* the request carries a valid token of an existing active user whose role
\* is in the route's allowed set
C19_Entitled(rq) ==
  /\ rq.token.kind = "signed"
  /\ rq.token.userId \in UserIds
  /\ users[rq.token.userId].isActive
  /\ users[rq.token.userId].role \in rq.route.allowed

\* anything permitted to a role is permitted to every higher role
C19_Nested ==
  \A r \in Routes : \A i, j \in 1..Len(Roles) :
    r.guarded /\ i < j /\ Roles[i] \in r.allowed => Roles[j] \in r.allowed

C19_UserManagementAdminOnly ==
  \A r \in Routes : r.router = "users" => r.guarded /\ r.allowed = {"admin"}

\* a request to a role-protected route has been answered without its handler
C19_Refused == req.route.guarded /\ req.pc = "sent" /\ ~req.ran

C20_AuditKeys ==
  [userId : UserIds, action : {"CREATE", "UPDATE", "DELETE"}, tableName : TableNames]

\* the audit log entries that name the user, the action and the table
C20_Entries(key) == Cardinality({i \in DOMAIN auditLogs : auditLogs[i] = key})

\* the requests of the user to the audited routes of the action and the table
\* that completed with a 2xx status
C20_Completions(key) ==
  Cardinality({i \in DOMAIN responses :
                 /\ responses[i].route.audit = audited(key.action, key.tableName)
                 /\ responses[i].user.id = key.userId
                 /\ responses[i].status >= 200
                 /\ responses[i].status < 300})

\* C20: the audit trail is complete and exact: once every request has been
\* answered and every call of logAuditEvent has returned, the audit log holds
\* one entry naming the acting user, the action and the table for every
\* request to an audited mutating route that completed with a 2xx status, and
\* no other entry.
C20_AuditTrailComplete ==
  req = NoRequest /\ pendingAudit = <<>>
    => \A key \in C20_AuditKeys : C20_Entries(key) = C20_Completions(key)

\* the insight has a summary and its three lists
C21_WellFormed(i) ==
  /\ i.summary # "none"
  /\ DOMAIN i = {"summary", "recommendations", "patterns", "alerts"}

C22_TokenOfDeactivated ==
  /\ req.token.kind = "signed"
  /\ req.token.userId \in UserIds
  /\ ~users[req.token.userId].isActive

\* the handler of an activation route is about to run for a user who is
\* already in the state asked for
C22_AlreadyThere ==
  /\ req.pc = "handler"
  /\ isActivation(req.route)
  /\ req.id \in UserIds
  /\ users[req.id].isActive = (req.route.path = "/:id/reactivate")

C23_Refusable(s) ==
  \/ s.sectionId \notin Sections
  \/ s.before # <<>>
  \/ \E i \in DOMAIN s.payload : s.payload[i].studentId \notin sectionStudents(s.sectionId)

\* client c ends a POST /attendance/mark in this step
C23_Ends(c) ==
  submission[c].pc # "done" /\ submission'[c].pc = "done" /\ submission'[c].via = "mark"

C25_Own == Cardinality({i \in DOMAIN records : records[i].submittedBy = res.user})

\* C25: for a caller with role beadle, the response of every analytics and AI
\* endpoint is computed only from attendance records that the caller
\* submitted: no count in the response, overall or of a group, exceeds the
\* number of records the caller submitted.
C25_BeadleSeesOwnRecords ==
  (res.op # "none" /\ \E u \in Users : u.id = res.user /\ u.role = "beadle")
  => /\ res.totalRecords <= C25_Own
     /\ res.absentRecords <= C25_Own
     /\ \A i \in DOMAIN res.groups : res.groups[i].total <= C25_Own

\* the request of the response was made by a non-admin for a file that another
\* user uploaded
C26_OfAnother(r) ==
  /\ users[r.user].role # "admin"
  /\ \E i \in DOMAIN storedFiles : storedFiles[i].id = r.id /\ storedFiles[i].uploadedBy # r.user

\* C26: a non-admin user can list, read, download and delete only files they
\* uploaded themselves: for every file uploaded by another user, GET
\* /files/:id, GET /files/:id/download and DELETE /files/:id return 404, or 500
\* when the database call of the request fails, and leave the file stored, and
\* GET /files never includes it.
C26_OwnFilesOnly ==
  [][ fileRes' # fileRes
      => /\ (fileRes'.op \in {"get", "download", "delete"} /\ C26_OfAnother(fileRes'))
            => fileRes'.status \in {404, 500} /\ storedFiles' = storedFiles
         /\ users[fileRes'.user].role # "admin"
            => \A i \in DOMAIN fileRes'.files : fileRes'.files[i].uploadedBy = fileRes'.user
         /\ fileRes'.op \in {"list", "get", "download"} => storedFiles' = storedFiles ]_vars

\* the beadle has asked to delete the coordinator's file, has got 404, and the
\* file is stored
C26_Witness ==
  /\ fileRes.op = "delete"
  /\ fileRes.user = 1
  /\ fileRes.status = 404
  /\ \E i \in DOMAIN storedFiles :
       storedFiles[i].id = fileRes.id /\ storedFiles[i].uploadedBy = 3

\* C26 as stated: a request of a non-admin for another user's file is always
\* answered 404
C26_AnotherUsersFileIs404 ==
  [][ (fileRes' # fileRes /\ fileRes'.op \in {"get", "download", "delete"}
       /\ C26_OfAnother(fileRes'))
      => fileRes'.status = 404 ]_vars

\* C27: every statistics response satisfies presentRecords + absentRecords =
\* totalRecords, absentRecords >= 0 and attendanceRate <= 100, also when
\* attendance records are created, updated or deleted during the request.
C27_StatsConsistent ==
  statsCall.pc = "done"
    => /\ statsCall.presentRecords + statsCall.absentRecords = statsCall.totalRecords
       /\ statsCall.absentRecords >= 0
       /\ ~gt(statsCall.attendanceRate, Num(100))

\* the sum of the totals of the groups
RECURSIVE C28_SumOfTotals(_)
C28_SumOfTotals(groups) ==
  IF groups = <<>> THEN 0 ELSE Head(groups).total + C28_SumOfTotals(Tail(groups))

\* C28: for every groupBy value accepted by GET /analytics/attendance (day,
\* week, month) and every record window, the groups in trends partition the
\* window: every group has total >= 1 and the sum of the groups' totals
\* equals summary.totalRecords.
C28_GroupsPartitionWindow ==
  res.op = "analytics/attendance"
    => /\ \A i \in DOMAIN res.groups : res.groups[i].total >= 1
       /\ C28_SumOfTotals(res.groups) = res.totalRecords

\* C29: a failed UI attendance submission loses nothing: when the insert of
\* handleSubmit fails after its delete step, the records that were stored for
\* the (section, date) before the submission are still stored afterwards.
C29_FailedSubmitLosesNothing ==
  [][ \A c \in Clients :
        ( /\ submission[c].pc = "deleted"
          /\ submission'[c].pc = "done"
          /\ submission'[c].code = "toast_error" )
        => \A i \in DOMAIN submission'[c].before :
             \E j \in DOMAIN records' : records'[j] = submission'[c].before[i] ]_vars

\* the loading placeholders of the transcript
C30_Placeholders == {i \in DOMAIN messages : messages[i].isLoading}

\* message i is an assistant reply to the user message before it
C30_Answers(i) ==
  /\ messages[i - 1].role = "user"
  /\ messages[i].role = "assistant"
  /\ \/ messages[i].content.op = "error"
     \/ /\ messages[i].content.op = "getAttendanceInsights"
        /\ messages[i].content.query = messages[i - 1].content.query

\* after the greeting the transcript is user messages, each followed by its
\* reply, or by the placeholder while its request is in flight
C30_Paired ==
  /\ messages[1] = Greeting
  /\ Len(messages) % 2 = 1
  /\ \A i \in DOMAIN messages :
       (i > 1 /\ i % 2 = 1)
       => \/ C30_Answers(i)
          \/ /\ messages[i].isLoading
             /\ messages[i - 1].role = "user"
             /\ i = Len(messages)
             /\ isLoading

\* C30: a send with blank input or while a request is in flight changes
\* nothing; every accepted send appends the user's message and eventually,
\* whether the insight computation succeeds or fails, exactly one assistant
\* reply, after which no loading placeholder remains and isLoading is false;
\* the transcript keeps each reply after the user message it answers.
C30_ChatTranscript ==
  /\ [](C30_Paired /\ (~isLoading => C30_Placeholders = {}))
  /\ [][ /\ (messages' # messages /\ (isLoading \/ trim(input) = <<>>))
            => (sending.waiting /\ ~sending'.waiting)
         /\ (~sending.waiting /\ sending'.waiting)
            => /\ Len(messages') = Len(messages) + 2
               /\ SubSeq(messages', 1, Len(messages)) = messages
               /\ messages'[Len(messages) + 1] =
                    Message("user", chatText("input", input), FALSE)
         /\ (sending.waiting /\ ~sending'.waiting)
            => /\ Len(messages') = Len(messages)
               /\ SubSeq(messages', 1, Len(messages) - 1)
                    = SubSeq(messages, 1, Len(messages) - 1)
               /\ C30_Placeholders' = {}
               /\ ~isLoading' ]_vars
  /\ (sending.waiting ~> (~sending.waiting /\ ~isLoading /\ C30_Placeholders = {}))

\* two sends have been answered, one of them by the catch branch
C30_Witness ==
  /\ Len(messages) = 5
  /\ ~isLoading
  /\ C30_Answers(3)
  /\ C30_Answers(5)
  /\ \E i \in {3, 5} : messages[i].content.op = "error"

====
